---- MODULE Spec2Model ----
(***************************************************************************)
(* GlycoNutri: the glycemic time-series analytics engine.                  *)
(*                                                                         *)
(* A reading series (pandas DataFrame with columns timestamp, glucose) is  *)
(* a sequence of rows; row order is the positional order of the frame.     *)
(* Timestamps are whole minutes since midnight of day 0, glucose values    *)
(* are whole mg/dL.  Floating point results are modelled by exact          *)
(* rationals (records [n, d] in lowest terms, d > 0).                      *)
(* A Python result is a tagged record: None, a raised exception, a number, *)
(* a timestamp, a frame, a list or a dict.                                 *)
(***************************************************************************)
EXTENDS Integers, Sequences, FiniteSets, TLC

VARIABLES
    cgm_data,   \* self.cgm_data of the analyzer (or the df argument)
    anchor,     \* the event the analyzer was built for: meal.timestamp,
                \* sleep.sleep_time or medication.taken_time
    op,         \* name of the last method called ("init" before any call)
    args,       \* arguments of the last call
    result,     \* what the last call returned or raised
    now,        \* the wall clock, what datetime.now() returns
    series,     \* the caller's frame, the one the analyzer was built over
    analyzer,   \* the class of the analyzer object (or the module of a function)
    sessions    \* self.sessions of a RepeatedMealAnalyzer

vars == <<cgm_data, anchor, op, args, result, now, series, analyzer, sessions>>

----------------------------------------------------------------------------
(* Exact arithmetic standing for Python floats *)

Abs(x) == IF x < 0 THEN -x ELSE x

RECURSIVE GCD(_, _)
GCD(a, b) == IF b = 0 THEN a ELSE GCD(b, a % b)

\* n/d in lowest terms with a positive denominator (d # 0)
Rat(n, d) ==
    LET s == IF d < 0 THEN -1 ELSE 1
        g == GCD(Abs(n), Abs(d))
    IN  [n |-> (s * n) \div g, d |-> (s * d) \div g]

IntRat(i) == [n |-> i, d |-> 1]
RatAdd(a, b) == Rat(a.n * b.d + b.n * a.d, a.d * b.d)
RatSub(a, b) == Rat(a.n * b.d - b.n * a.d, a.d * b.d)
RatMul(a, b) == Rat(a.n * b.n, a.d * b.d)
RatDiv(a, b) == Rat(a.n * b.d, a.d * b.n)
RatLt(a, b) == a.n * b.d < b.n * a.d
RatLe(a, b) == a.n * b.d <= b.n * a.d
RatIsZero(a) == a.n = 0

----------------------------------------------------------------------------
(* Python values *)

None == [tag |-> "None"]
Raise(e) == [tag |-> "raise", exc |-> e]
Num(r) == [tag |-> "num", v |-> r]
Time(t) == [tag |-> "time", v |-> t]
Frame(rows) == [tag |-> "frame", rows |-> rows]
List(items) == [tag |-> "list", items |-> items]
NaN == [tag |-> "nan"]
IsNone(x) == x.tag = "None"

----------------------------------------------------------------------------
(* pandas primitives on a frame (a sequence of rows) *)

Row(t, g) == [timestamp |-> t, glucose |-> g]

RECURSIVE SumGlucose(_)
SumGlucose(df) ==
    IF df = <<>> THEN 0 ELSE df[1].glucose + SumGlucose(Tail(df))

\* Series.mean() of the glucose column of a non-empty frame
MeanGlucose(df) == Rat(SumGlucose(df), Len(df))

RECURSIVE MaxGlucose(_)
MaxGlucose(df) ==
    IF Len(df) = 1 THEN df[1].glucose
    ELSE LET m == MaxGlucose(Tail(df))
         IN  IF df[1].glucose >= m THEN df[1].glucose ELSE m

RECURSIVE MinGlucose(_)
MinGlucose(df) ==
    IF Len(df) = 1 THEN df[1].glucose
    ELSE LET m == MinGlucose(Tail(df))
         IN  IF df[1].glucose <= m THEN df[1].glucose ELSE m

\* Series.idxmax(): the first row, in positional order, holding the maximum
IdxMax(df) ==
    LET m == MaxGlucose(df)
    IN  CHOOSE i \in 1..Len(df) :
            /\ df[i].glucose = m
            /\ \A j \in 1..(i - 1) : df[j].glucose # m

IsSortedByTimestamp(df) ==
    \A i \in 1..(Len(df) - 1) : df[i].timestamp <= df[i + 1].timestamp

RemoveAt(df, i) == SubSeq(df, 1, i - 1) \o SubSeq(df, i + 1, Len(df))

\* DataFrame.sort_values('timestamp'): every order of the rows that is
\* ascending in timestamp.  The default sort is not stable, so rows with equal
\* timestamps may come out in any order.
RECURSIVE SortValues(_)
SortValues(df) ==
    IF df = <<>> THEN {<<>>}
    ELSE LET first == { i \in 1..Len(df) :
                          \A j \in 1..Len(df) : df[i].timestamp <= df[j].timestamp }
         IN  UNION { { <<df[i]>> \o s : s \in SortValues(RemoveAt(df, i)) } :
                     i \in first }

----------------------------------------------------------------------------
(* postmeal.py: PostMealAnalysis(meal, cgm_data); mt is meal.timestamp *)

DefaultHours == 2
DefaultMinutes == 30
MinutesPerHour == 60

\* a window that leaves out a reading exactly at its end
find_post_meal_window_open_end(df, mt, hours) ==
    SelectSeq(df, LAMBDA r : /\ r.timestamp >= mt
                             /\ r.timestamp < mt + hours * MinutesPerHour)

\* find_post_meal_window(hours): both boundaries inclusive, rows keep their order
find_post_meal_window(df, mt, hours) ==
    SelectSeq(df, LAMBDA r : /\ r.timestamp >= mt
                             /\ r.timestamp <= mt + hours * MinutesPerHour)

\* a lookback that takes in a reading exactly at the meal time
find_pre_meal_window_with_anchor(df, mt, minutes) ==
    SelectSeq(df, LAMBDA r : /\ r.timestamp >= mt - minutes
                             /\ r.timestamp <= mt)

\* find_pre_meal_window(minutes): start inclusive, meal time exclusive
find_pre_meal_window(df, mt, minutes) ==
    SelectSeq(df, LAMBDA r : /\ r.timestamp >= mt - minutes
                             /\ r.timestamp < mt)

calculate_baseline(df, mt, minutes) ==
    LET baseline == find_pre_meal_window(df, mt, minutes)
    IN  IF baseline = <<>> THEN None ELSE Num(MeanGlucose(baseline))

calculate_peak(df, mt) ==
    LET window == find_post_meal_window(df, mt, DefaultHours)
    IN  IF window = <<>> THEN None ELSE Num(IntRat(MaxGlucose(window)))

calculate_peak_time(df, mt) ==
    LET window == find_post_meal_window(df, mt, DefaultHours)
    IN  IF window = <<>> THEN None ELSE Time(window[IdxMax(window)].timestamp)

\* a loop that takes the first sample at or above the baseline
RECURSIVE RiseLoopAtBaseline(_, _, _)
RiseLoopAtBaseline(ws, baseline, mt) ==
    IF ws = <<>> THEN None
    ELSE LET row == ws[1]
             time_diff == row.timestamp - mt
         IN  IF RatLe(baseline, IntRat(row.glucose)) /\ time_diff > 0
             THEN Num(RatDiv(RatSub(IntRat(row.glucose), baseline), IntRat(time_diff)))
             ELSE RiseLoopAtBaseline(Tail(ws), baseline, mt)

\* the loop of rate_of_rise over the sorted window; baseline is a number here
RECURSIVE RiseLoop(_, _, _)
RiseLoop(ws, baseline, mt) ==
    IF ws = <<>> THEN None
    ELSE LET row == ws[1]
             time_diff == row.timestamp - mt
         IN  IF RatLt(baseline, IntRat(row.glucose)) /\ time_diff > 0
             THEN Num(RatDiv(RatSub(IntRat(row.glucose), baseline), IntRat(time_diff)))
             ELSE RiseLoop(Tail(ws), baseline, mt)

\* rate_of_rise(): the set of possible outcomes (one per order sort_values may
\* give).  With no baseline, the first comparison row['glucose'] > None raises.
rate_of_rise(df, mt) ==
    LET window == find_post_meal_window(df, mt, DefaultHours)
        baseline == calculate_baseline(df, mt, DefaultMinutes)
    IN  IF window = <<>> \/ Len(window) < 2 THEN {None}
        ELSE IF IsNone(baseline) THEN {Raise("TypeError")}
        ELSE { RiseLoop(ws, baseline.v, mt) : ws \in SortValues(window) }

peak_baseline_ratio(df, mt) ==
    LET peak == calculate_peak(df, mt)
        baseline == calculate_baseline(df, mt, DefaultMinutes)
    IN  IF IsNone(peak) \/ IsNone(baseline) THEN None
        ELSE IF RatIsZero(baseline.v) THEN None
        ELSE Num(RatDiv(peak.v, baseline.v))

glucose_excursion_amplitude(df, mt) ==
    LET peak == calculate_peak(df, mt)
        baseline == calculate_baseline(df, mt, DefaultMinutes)
    IN  IF IsNone(peak) \/ IsNone(baseline) THEN None
        ELSE Num(RatSub(peak.v, baseline.v))

\* the difference to the baseline without the clamp at 0
AboveBaselineUnclamped(g, baseline) == RatSub(IntRat(g), baseline)

\* above_baseline column: glucose - baseline, negative values set to 0
AboveBaseline(g, baseline) ==
    LET a == RatSub(IntRat(g), baseline)
    IN  IF RatLt(a, IntRat(0)) THEN IntRat(0) ELSE a

\* the trapezoid loop over a sorted frame, time_diff in hours
RECURSIVE TrapezoidAbove(_, _)
TrapezoidAbove(ws, baseline) ==
    IF Len(ws) < 2 THEN IntRat(0)
    ELSE LET n == Len(ws)
             h == RatAdd(AboveBaseline(ws[n].glucose, baseline),
                         AboveBaseline(ws[n - 1].glucose, baseline))
             t == Rat(ws[n].timestamp - ws[n - 1].timestamp, MinutesPerHour)
         IN  RatAdd(TrapezoidAbove(SubSeq(ws, 1, n - 1), baseline),
                    RatDiv(RatMul(h, t), IntRat(2)))

\* calculate_incremental_auc(hours): the set of possible outcomes
calculate_incremental_auc(df, mt, hours) ==
    LET window == find_post_meal_window(df, mt, hours)
        baseline == calculate_baseline(df, mt, DefaultMinutes)
    IN  IF window = <<>> \/ Len(window) < 2 THEN {None}
        ELSE IF IsNone(baseline) THEN {None}
        ELSE { Num(TrapezoidAbove(ws, baseline.v)) : ws \in SortValues(window) }

\* n*(n-1) times the sample variance (ddof = 1) of the glucose column, n >= 2
RECURSIVE SumSquares(_)
SumSquares(df) ==
    IF df = <<>> THEN 0 ELSE df[1].glucose * df[1].glucose + SumSquares(Tail(df))

VarNum(df) == Len(df) * SumSquares(df) - SumGlucose(df) * SumGlucose(df)
VarDen(df) == Len(df) * (Len(df) - 1)

\* abs(diff) >= std_g * sd_threshold, with std_g = sqrt(VarNum / VarDen):
\* both sides are non-negative, so the squares are compared
GeStd(diff, df, sd_threshold) ==
    diff * diff * VarDen(df) >= sd_threshold * sd_threshold * VarNum(df)

\* the excursions list of calculate_mage: rows are walked in frame order
RECURSIVE Excursions(_, _, _, _)
Excursions(window, i, df, sd_threshold) ==
    IF i > Len(window) THEN <<>>
    ELSE LET diff == window[i].glucose - window[i - 1].glucose
         IN  (IF GeStd(diff, df, sd_threshold) THEN <<Abs(diff)>> ELSE <<>>)
             \o Excursions(window, i + 1, df, sd_threshold)

RECURSIVE SumSeq(_)
SumSeq(s) == IF s = <<>> THEN 0 ELSE s[1] + SumSeq(Tail(s))

calculate_mage(df, mt, hours, sd_threshold) ==
    LET window == find_post_meal_window(df, mt, hours)
        excursions == Excursions(window, 2, window, sd_threshold)
    IN  IF window = <<>> THEN None
        ELSE IF excursions # <<>>
             THEN Num(Rat(SumSeq(excursions), Len(excursions)))
             ELSE None

MinWindowForHalfLife == 4

\* a loop that looks for a sample strictly below the midpoint
RECURSIVE HalfLifeLoopStrict(_, _, _)
HalfLifeLoopStrict(after_peak, half_value, peak_time) ==
    IF after_peak = <<>> THEN None
    ELSE IF RatLt(IntRat(after_peak[1].glucose), half_value)
         THEN Num(IntRat((after_peak[1].timestamp - peak_time) * 2))
         ELSE HalfLifeLoopStrict(Tail(after_peak), half_value, peak_time)

\* the loop of half_life_estimate over the sorted rows after the peak
RECURSIVE HalfLifeLoop(_, _, _)
HalfLifeLoop(after_peak, half_value, peak_time) ==
    IF after_peak = <<>> THEN None
    ELSE IF RatLe(IntRat(after_peak[1].glucose), half_value)
         THEN Num(IntRat((after_peak[1].timestamp - peak_time) * 2))
         ELSE HalfLifeLoop(Tail(after_peak), half_value, peak_time)

\* half_life_estimate(): the set of possible outcomes
half_life_estimate(df, mt) ==
    LET window == find_post_meal_window(df, mt, DefaultHours)
        peak_time == calculate_peak_time(df, mt)
        baseline == calculate_baseline(df, mt, DefaultMinutes)
        peak == calculate_peak(df, mt)
    IN  IF window = <<>> \/ Len(window) < MinWindowForHalfLife THEN {None}
        ELSE IF IsNone(peak_time) THEN {None}
        ELSE IF IsNone(baseline) THEN {None}
        ELSE LET half_value == RatDiv(RatAdd(peak.v, baseline.v), IntRat(2))
                 after == SelectSeq(window, LAMBDA r : r.timestamp > peak_time.v)
             IN  { HalfLifeLoop(after_peak, half_value, peak_time.v) :
                       after_peak \in SortValues(after) }

\* scipy.stats.linregress(times, values)[0]: the least-squares slope; with all
\* times identical it raises ValueError in current releases and gave nan in
\* older ones
linregress(times, values) ==
    LET n == Len(times)
        sx == SumSeq(times)
        sy == SumSeq(values)
        sxy == SumSeq([i \in DOMAIN times |-> times[i] * values[i]])
        sxx == SumSeq([i \in DOMAIN times |-> times[i] * times[i]])
        ssxm == n * sxx - sx * sx
    IN  IF ssxm = 0 THEN {Raise("ValueError"), NaN}
        ELSE {Num(Rat(n * sxy - sx * sy, ssxm))}

MinWindowForDecline == 4

rate_of_decline(df, mt) ==
    LET window == find_post_meal_window(df, mt, DefaultHours)
        peak_time == calculate_peak_time(df, mt)
    IN  IF window = <<>> \/ Len(window) < MinWindowForDecline THEN {None}
        ELSE IF IsNone(peak_time) THEN {None}
        ELSE LET after == SelectSeq(window, LAMBDA r : r.timestamp > peak_time.v)
             IN  IF Len(after) < 2 THEN {None}
                 ELSE UNION {
                     LET times == [i \in DOMAIN after_peak |->
                                       after_peak[i].timestamp - peak_time.v]
                         values == [i \in DOMAIN after_peak |-> after_peak[i].glucose]
                     IN  IF Len(times) > 1 /\ times[Len(times)] > 0
                         THEN linregress(times, values)
                         ELSE {None} :
                     after_peak \in SortValues(after) }

calculate_insulin_sensitivity(df, mt, insulin_units) ==
    LET baseline == calculate_baseline(df, mt, DefaultMinutes)
        window == find_post_meal_window(df, mt, DefaultHours)
    IN  IF IsNone(insulin_units) \/ insulin_units = Num(IntRat(0)) THEN None
        ELSE IF IsNone(baseline) THEN None
        ELSE IF window = <<>> THEN NaN   \* min() of an empty column is NaN
        ELSE Num(RatDiv(RatSub(baseline.v, IntRat(MinGlucose(window))),
                        insulin_units.v))

\* early_phase_auc(minutes): the set of possible outcomes
early_phase_auc(df, mt, minutes) ==
    LET window == find_post_meal_window(df, mt, DefaultHours)
        baseline == calculate_baseline(df, mt, DefaultMinutes)
        early == SelectSeq(window, LAMBDA r : r.timestamp <= mt + minutes)
    IN  IF window = <<>> THEN {None}
        ELSE IF IsNone(baseline) THEN {None}
        ELSE IF Len(early) < 2 THEN {None}
        ELSE { Num(TrapezoidAbove(ws, baseline.v)) : ws \in SortValues(early) }

\* late_phase_auc(start_min, end_hours): the set of possible outcomes
late_phase_auc(df, mt, start_min, end_hours) ==
    LET window == find_post_meal_window(df, mt, end_hours)
        baseline == calculate_baseline(df, mt, DefaultMinutes)
        late == SelectSeq(window, LAMBDA r :
                    /\ r.timestamp >= mt + start_min
                    /\ r.timestamp <= mt + end_hours * MinutesPerHour)
    IN  IF window = <<>> THEN {None}
        ELSE IF IsNone(baseline) THEN {None}
        ELSE IF Len(late) < 2 THEN {None}
        ELSE { Num(TrapezoidAbove(ws, baseline.v)) : ws \in SortValues(late) }

----------------------------------------------------------------------------
(* activity.py: SleepAnalysis; medication.py: MedicationEvent, MedicationAnalysis *)

find_sleep_window(df, sleep_time, wake_time) ==
    SelectSeq(df, LAMBDA r : /\ r.timestamp >= sleep_time
                             /\ r.timestamp <= wake_time)

DefaultDurationHours == 6

\* MedicationEvent.end_time; info is None for a name absent from
\* ORAL_MEDICATIONS, else the table entry (every entry has duration_hours)
end_time(taken_time, info) ==
    IF ~IsNone(info) THEN taken_time + info.duration_hours * MinutesPerHour
    ELSE taken_time + DefaultDurationHours * MinutesPerHour

find_medication_window(df, taken_time, info) ==
    SelectSeq(df, LAMBDA r : /\ r.timestamp >= taken_time
                             /\ r.timestamp <= end_time(taken_time, info))

----------------------------------------------------------------------------
(* Formatting and rounding *)

MinutesPerDay == 1440

\* Timestamp.isoformat(): the date and the time of day, field by field
IsoFormat(t) ==
    [day |-> t \div MinutesPerDay,
     hour |-> (t % MinutesPerDay) \div MinutesPerHour,
     minute |-> t % MinutesPerHour]

\* round(x, 1): to one decimal, a tie going to the even neighbour
Round1(x) ==
    LET q == (10 * x.n) \div x.d
        rem == 10 * x.n - q * x.d
        m == IF 2 * rem < x.d THEN q
             ELSE IF 2 * rem > x.d THEN q + 1
             ELSE IF q % 2 = 0 THEN q ELSE q + 1
    IN  Rat(m, 10)

----------------------------------------------------------------------------
(* trend.py: TrendAnalysis(cgm_data); __init__ sorts the frame *)

HighGlucose == 180
HighGapSeconds == 3600
MinHighHours == 2
LowGlucose == 70
LowGapSeconds == 1800
SecondsPerMinute == 60

Between(df, start, end) ==
    SelectSeq(df, LAMBDA r : r.timestamp >= start /\ r.timestamp <= end)

\* a loop that keeps a closed run only when it lasted more than 2 hours
RECURSIVE HighLoopStrictDuration(_, _, _, _, _)
HighLoopStrictDuration(high, i, start, prev_time, episodes) ==
    IF i > Len(high) THEN episodes
    ELSE LET ts == high[i].timestamp
         IN  IF IsNone(start)
             THEN HighLoopStrictDuration(high, i + 1, Time(ts), Time(ts), episodes)
             ELSE IF (ts - prev_time.v) * SecondsPerMinute > HighGapSeconds
             THEN LET end == prev_time.v
                      duration == Rat(end - start.v, MinutesPerHour)
                      closed ==
                          [start |-> IsoFormat(start.v),
                           end |-> IsoFormat(end),
                           duration_hours |-> Round1(duration),
                           max_glucose |-> MaxGlucose(Between(high, start.v, end))]
                  IN  HighLoopStrictDuration(high, i + 1, Time(ts), Time(ts),
                               IF RatLt(IntRat(MinHighHours), duration)
                               THEN Append(episodes, closed)
                               ELSE episodes)
             ELSE HighLoopStrictDuration(high, i + 1, start, Time(ts), episodes)

\* the loop of _find_high_episodes over the sorted rows above 180:
\* start and prev_time are None or Time(t)
RECURSIVE HighLoop(_, _, _, _, _)
HighLoop(high, i, start, prev_time, episodes) ==
    IF i > Len(high) THEN episodes
    ELSE LET ts == high[i].timestamp
         IN  IF IsNone(start)
             THEN HighLoop(high, i + 1, Time(ts), Time(ts), episodes)
             ELSE IF (ts - prev_time.v) * SecondsPerMinute > HighGapSeconds
             THEN LET end == prev_time.v
                      duration == Rat(end - start.v, MinutesPerHour)
                      closed ==
                          [start |-> IsoFormat(start.v),
                           end |-> IsoFormat(end),
                           duration_hours |-> Round1(duration),
                           max_glucose |-> MaxGlucose(Between(high, start.v, end))]
                  IN  HighLoop(high, i + 1, Time(ts), Time(ts),
                               IF RatLe(IntRat(MinHighHours), duration)
                               THEN Append(episodes, closed)
                               ELSE episodes)
             ELSE HighLoop(high, i + 1, start, Time(ts), episodes)

\* _find_high_episodes(): the set of possible outcomes
find_high_episodes(df) ==
    LET high == SelectSeq(df, LAMBDA r : r.glucose > HighGlucose)
    IN  IF high = <<>> THEN {List(<<>>)}
        ELSE { List(HighLoop(hs, 1, None, None, <<>>)) : hs \in SortValues(high) }

\* a loop that also splits a run at a difference of exactly 30 minutes
RECURSIVE LowLoopSplitAtGap(_, _, _, _, _)
LowLoopSplitAtGap(low, i, start, prev_time, episodes) ==
    IF i > Len(low) THEN episodes
    ELSE LET ts == low[i].timestamp
         IN  IF IsNone(start)
             THEN LowLoopSplitAtGap(low, i + 1, Time(ts), Time(ts), episodes)
             ELSE IF (ts - prev_time.v) * SecondsPerMinute >= LowGapSeconds
             THEN LET closed ==
                          [time |-> IsoFormat(start.v),
                           min_glucose |-> MinGlucose(Between(low, start.v, prev_time.v))]
                  IN  LowLoopSplitAtGap(low, i + 1, Time(ts), Time(ts),
                              IF start.v # prev_time.v
                              THEN Append(episodes, closed)
                              ELSE episodes)
             ELSE LowLoopSplitAtGap(low, i + 1, start, Time(ts), episodes)

\* the loop of _find_low_episodes over the sorted rows below 70
RECURSIVE LowLoop(_, _, _, _, _)
LowLoop(low, i, start, prev_time, episodes) ==
    IF i > Len(low) THEN episodes
    ELSE LET ts == low[i].timestamp
         IN  IF IsNone(start)
             THEN LowLoop(low, i + 1, Time(ts), Time(ts), episodes)
             ELSE IF (ts - prev_time.v) * SecondsPerMinute > LowGapSeconds
             THEN LET closed ==
                          [time |-> IsoFormat(start.v),
                           min_glucose |-> MinGlucose(Between(low, start.v, prev_time.v))]
                  IN  LowLoop(low, i + 1, Time(ts), Time(ts),
                              IF start.v # prev_time.v
                              THEN Append(episodes, closed)
                              ELSE episodes)
             ELSE LowLoop(low, i + 1, start, Time(ts), episodes)

\* _find_low_episodes(): the set of possible outcomes
find_low_episodes(df) ==
    LET low == SelectSeq(df, LAMBDA r : r.glucose < LowGlucose)
    IN  IF low = <<>> THEN {List(<<>>)}
        ELSE { List(LowLoop(ls, 1, None, None, <<>>)) : ls \in SortValues(low) }

----------------------------------------------------------------------------
(* circadian.py: CircadianAnalysis(cgm_data); __init__ sorts the frame and *)
(* adds the hour column, timestamp.dt.hour                                 *)

Hour(r) == (r.timestamp % MinutesPerDay) \div MinutesPerHour

DawnStartHour == 4
DawnEndHour == 8
DawnRise == 10
DawnRiseMarked == 20

\* an analysis that calls a rise of exactly 20 marked
dawn_phenomenon_analysis_ge(df) ==
    LET dawn == SelectSeq(df, LAMBDA r : Hour(r) >= DawnStartHour /\ Hour(r) < DawnEndHour)
        early_night == SelectSeq(df, LAMBDA r : Hour(r) >= 0 /\ Hour(r) < DawnStartHour)
    IN  IF dawn = <<>> \/ early_night = <<>>
        THEN [tag |-> "dict", dawn_phenomenon |-> FALSE]
        ELSE LET dawn_mean == MeanGlucose(dawn)
                 night_mean == MeanGlucose(early_night)
                 rise == RatSub(dawn_mean, night_mean)
             IN  [tag |-> "dict",
                  dawn_phenomenon |-> RatLt(IntRat(DawnRise), rise),
                  rise_amount |-> Round1(rise),
                  dawn_mean |-> Round1(dawn_mean),
                  night_mean |-> Round1(night_mean),
                  severity |-> IF RatLe(IntRat(DawnRiseMarked), rise) THEN "marked"
                               ELSE IF RatLt(IntRat(DawnRise), rise) THEN "mild"
                               ELSE "none"]

\* severity strings: "marked", "mild" and "none" stand for the three labels of the source
dawn_phenomenon_analysis(df) ==
    LET dawn == SelectSeq(df, LAMBDA r : Hour(r) >= DawnStartHour /\ Hour(r) < DawnEndHour)
        early_night == SelectSeq(df, LAMBDA r : Hour(r) >= 0 /\ Hour(r) < DawnStartHour)
    IN  IF dawn = <<>> \/ early_night = <<>>
        THEN [tag |-> "dict", dawn_phenomenon |-> FALSE]
        ELSE LET dawn_mean == MeanGlucose(dawn)
                 night_mean == MeanGlucose(early_night)
                 rise == RatSub(dawn_mean, night_mean)
             IN  [tag |-> "dict",
                  dawn_phenomenon |-> RatLt(IntRat(DawnRise), rise),
                  rise_amount |-> Round1(rise),
                  dawn_mean |-> Round1(dawn_mean),
                  night_mean |-> Round1(night_mean),
                  severity |-> IF RatLt(IntRat(DawnRiseMarked), rise) THEN "marked"
                               ELSE IF RatLt(IntRat(DawnRise), rise) THEN "mild"
                               ELSE "none"]

SomogyiLow == 70
SomogyiHigh == 180
SomogyiNightEnd == 6
SomogyiHorizonHours == 4

\* a loop whose horizon takes in the reading exactly 4 hours after the low
RECURSIVE SomogyiLoopClosedHorizon(_, _)
SomogyiLoopClosedHorizon(df, low_times) ==
    IF low_times = <<>> THEN [tag |-> "dict", somogyi_effect |-> FALSE]
    ELSE LET low_time == low_times[1]
             after_low == SelectSeq(df, LAMBDA r :
                 /\ r.timestamp > low_time
                 /\ r.timestamp <= low_time + SomogyiHorizonHours * MinutesPerHour)
         IN  IF after_low # <<>> /\ MaxGlucose(after_low) > SomogyiHigh
             THEN [tag |-> "dict",
                   somogyi_effect |-> TRUE,
                   low_time |-> IsoFormat(low_time),
                   rebound_glucose |-> Round1(IntRat(MaxGlucose(after_low))),
                   rebound_time |-> IsoFormat(after_low[IdxMax(after_low)].timestamp)]
             ELSE SomogyiLoopClosedHorizon(df, Tail(low_times))

\* somogyi_effect_analysis: the loop over low_times
RECURSIVE SomogyiLoop(_, _)
SomogyiLoop(df, low_times) ==
    IF low_times = <<>> THEN [tag |-> "dict", somogyi_effect |-> FALSE]
    ELSE LET low_time == low_times[1]
             after_low == SelectSeq(df, LAMBDA r :
                 /\ r.timestamp > low_time
                 /\ r.timestamp < low_time + SomogyiHorizonHours * MinutesPerHour)
         IN  IF after_low # <<>> /\ MaxGlucose(after_low) > SomogyiHigh
             THEN [tag |-> "dict",
                   somogyi_effect |-> TRUE,
                   low_time |-> IsoFormat(low_time),
                   rebound_glucose |-> Round1(IntRat(MaxGlucose(after_low))),
                   rebound_time |-> IsoFormat(after_low[IdxMax(after_low)].timestamp)]
             ELSE SomogyiLoop(df, Tail(low_times))

somogyi_effect_analysis(df) ==
    LET night_low == SelectSeq(df, LAMBDA r :
            /\ Hour(r) >= 0
            /\ Hour(r) < SomogyiNightEnd
            /\ r.glucose < SomogyiLow)
    IN  IF night_low = <<>> THEN [tag |-> "dict", somogyi_effect |-> FALSE]
        ELSE SomogyiLoop(df, [i \in DOMAIN night_low |-> night_low[i].timestamp])

----------------------------------------------------------------------------
(* cgm.py: calculate_tir(df, low, high) *)

TirLow == 70
TirHigh == 140

\* a range that leaves out a sample exactly at the upper bound
calculate_tir_open_high(df, low, high) ==
    LET in_range == Len(SelectSeq(df, LAMBDA r : r.glucose >= low /\ r.glucose < high))
        total == Len(df)
    IN  IF total > 0 THEN Num(RatMul(Rat(in_range, total), IntRat(100)))
        ELSE Num(IntRat(0))

calculate_tir(df, low, high) ==
    LET in_range == Len(SelectSeq(df, LAMBDA r : r.glucose >= low /\ r.glucose <= high))
        total == Len(df)
    IN  IF total > 0 THEN Num(RatMul(Rat(in_range, total), IntRat(100)))
        ELSE Num(IntRat(0))

----------------------------------------------------------------------------
(* circadian.py: BiomarkerAnalysis(cgm_data).extract_features() *)

\* the largest r in lo..hi with r * r <= n (lo * lo <= n < (hi + 1) * (hi + 1))
RECURSIVE ISqrtIn(_, _, _)
ISqrtIn(n, lo, hi) ==
    IF lo >= hi THEN lo
    ELSE LET mid == (lo + hi + 1) \div 2
         IN  IF mid * mid <= n THEN ISqrtIn(n, mid, hi) ELSE ISqrtIn(n, lo, mid - 1)

ISqrt(n) == ISqrtIn(n, 0, 40000)

\* round(Series.std(), 1) in tenths: the integer nearest to 10 * sqrt(VarNum / VarDen)
StdTenths(df) == (ISqrt((400 * VarNum(df)) \div VarDen(df)) + 1) \div 2

SevereLow == 54
SevereHigh == 250

Percent(df, Test(_)) == Num(Round1(Rat(100 * Len(SelectSeq(df, Test)), Len(df))))

\* |glucose.diff()| of a frame of at least two rows
AbsDiffs(df) == [i \in 1..(Len(df) - 1) |-> Abs(df[i + 1].glucose - df[i].glucose)]

RECURSIVE MaxSeq(_)
MaxSeq(s) ==
    IF Len(s) = 1 THEN s[1]
    ELSE LET m == MaxSeq(Tail(s)) IN IF s[1] >= m THEN s[1] ELSE m

\* the features dict, given the frame as sort_values returned it (non-empty)
Features(sorted_data) ==
    LET n == Len(sorted_data)
        mean == Round1(MeanGlucose(sorted_data))
        std == Rat(StdTenths(sorted_data), 10)
        diffs == AbsDiffs(sorted_data)
        excursions == SelectSeq(diffs, LAMBDA d : RatLe(std, IntRat(d)))
    IN  [mean |-> Num(mean),
         std |-> IF n < 2 THEN NaN ELSE Num(std),
         cv |-> IF n < 2 THEN NaN
                ELSE Num(Round1(RatMul(RatDiv(std, mean), IntRat(100)))),
         tir |-> Percent(sorted_data,
                         LAMBDA r : r.glucose >= LowGlucose /\ r.glucose <= HighGlucose),
         tbr |-> Percent(sorted_data, LAMBDA r : r.glucose < LowGlucose),
         tbr_severe |-> Percent(sorted_data, LAMBDA r : r.glucose < SevereLow),
         tar |-> Percent(sorted_data, LAMBDA r : r.glucose > HighGlucose),
         tar_severe |-> Percent(sorted_data, LAMBDA r : r.glucose > SevereHigh),
         mean_amplitude |-> IF n < 2 THEN NaN
                            ELSE Num(Round1(Rat(SumSeq(diffs), Len(diffs)))),
         max_amplitude |-> IF n < 2 THEN NaN ELSE Num(Round1(IntRat(MaxSeq(diffs)))),
         mage |-> IF n >= 2 /\ excursions # <<>>
                  THEN Num(Round1(Rat(SumSeq(excursions), Len(excursions))))
                  ELSE Num(IntRat(0))]

\* extract_features(): the set of possible outcomes.  On an empty frame the
\* statistics are NaN and sorted_data['glucose'].iloc[0] raises IndexError.
extract_features(df) ==
    IF df = <<>> THEN {Raise("IndexError")}
    ELSE { [tag |-> "dict", biomarkers |-> Features(sorted_data)] :
               sorted_data \in SortValues(df) }

----------------------------------------------------------------------------
(* ml.py: GlucoseAlert(cgm_data).check_current_status(), default settings *)

VeryLow == 54
VeryHigh == 250

\* _get_message: one fixed text per status, named here by its status
get_message(status) == [text_for |-> status]

Status(glucose) ==
    IF glucose < VeryLow THEN [status |-> "critical_low", level |-> "critical"]
    ELSE IF glucose < LowGlucose THEN [status |-> "low", level |-> "warning"]
    ELSE IF glucose > VeryHigh THEN [status |-> "critical_high", level |-> "critical"]
    ELSE IF glucose > HighGlucose THEN [status |-> "high", level |-> "warning"]
    ELSE [status |-> "normal", level |-> "info"]

\* check_current_status(): the set of possible outcomes; cgm_data.iloc[-1]
\* raises IndexError on an empty frame
check_current_status(df) ==
    IF df = <<>> THEN {Raise("IndexError")}
    ELSE { LET latest == sorted_data[Len(sorted_data)]
               st == Status(latest.glucose)
           IN  [tag |-> "dict",
                status |-> st.status,
                level |-> st.level,
                glucose |-> latest.glucose,
                timestamp |-> IsoFormat(latest.timestamp),
                message |-> get_message(st.status)] :
           sorted_data \in SortValues(df) }

----------------------------------------------------------------------------
(* Inputs *)

\* all frames of at most n rows drawn from a set of rows
BoundedSeq(S, n) == UNION { [1..k -> S] : k \in 0..n }

Rows(times, values) == { Row(t, g) : t \in times, g \in values }

\* no call is in progress: the caller is free to call a method
Idle == op = "init"

\* a method is called on the analyzer and returns (or raises)
Call(name, a, r) ==
    /\ op' = name
    /\ args' = a
    /\ result' = r
    /\ UNCHANGED <<cgm_data, anchor, now, series, analyzer, sessions>>

\* the caller has consumed the result and may call again
Return ==
    /\ op # "init"
    /\ op' = "init"
    /\ args' = <<>>
    /\ result' = None
    /\ UNCHANGED <<cgm_data, anchor, now, series, analyzer, sessions>>

\* all frames of at most n rows from S that are sorted by timestamp
RECURSIVE SortedFrames(_, _)
SortedFrames(S, n) ==
    IF n = 0 THEN {<<>>}
    ELSE LET prev == SortedFrames(S, n - 1)
         IN  prev \cup UNION {
                 { Append(s, r) :
                     r \in { q \in S : s = <<>> \/ s[Len(s)].timestamp <= q.timestamp } } :
                 s \in { p \in prev : Len(p) = n - 1 } }

----------------------------------------------------------------------------
(* Window queries: PostMealAnalysis, SleepAnalysis and MedicationAnalysis  *)
(* keep the caller's frame as it is, in any row order.                     *)

MaxLenWindow == 3
MealTimes == {60}
WindowTimes == {25, 30, 55, 60, 180, 185, 240, 245}
WindowGlucose == {90, 100}
Lookbacks == {5, DefaultMinutes}
WakeTimes == {20, 180}
MedicationInfos == {None, [tag |-> "dict", duration_hours |-> 3]}

InitWindow ==
    /\ cgm_data \in BoundedSeq(Rows(WindowTimes, WindowGlucose), MaxLenWindow)
    /\ anchor \in MealTimes
    /\ op = "init"
    /\ args = <<>>
    /\ result = None
    /\ now = 0
    /\ series = cgm_data
    /\ analyzer \in {"PostMealAnalysis", "SleepAnalysis", "MedicationAnalysis"}
    /\ sessions = <<>>

FindPostMealWindow ==
    Idle /\ analyzer = "PostMealAnalysis" /\ Call("find_post_meal_window", [hours |-> DefaultHours],
         Frame(find_post_meal_window(cgm_data, anchor, DefaultHours)))

FindPreMealWindow ==
    Idle /\ analyzer = "PostMealAnalysis" /\ \E minutes \in Lookbacks :
        Call("find_pre_meal_window", [minutes |-> minutes],
             Frame(find_pre_meal_window(cgm_data, anchor, minutes)))

CalculateBaseline ==
    Idle /\ analyzer = "PostMealAnalysis" /\ \E minutes \in Lookbacks :
        Call("calculate_baseline", [minutes |-> minutes],
             calculate_baseline(cgm_data, anchor, minutes))

FindSleepWindow ==
    Idle /\ analyzer = "SleepAnalysis" /\ \E wake_time \in WakeTimes :
        Call("find_sleep_window", [wake_time |-> wake_time],
             Frame(find_sleep_window(cgm_data, anchor, wake_time)))

FindMedicationWindow ==
    Idle /\ analyzer = "MedicationAnalysis" /\ \E info \in MedicationInfos :
        Call("find_medication_window", [info |-> info],
             Frame(find_medication_window(cgm_data, anchor, info)))

NextWindow ==
    \/ FindPostMealWindow
    \/ FindPreMealWindow
    \/ CalculateBaseline
    \/ FindSleepWindow
    \/ FindMedicationWindow
    \/ Return

SpecWindow == InitWindow /\ [][NextWindow]_vars

----------------------------------------------------------------------------
(* Post-meal metrics over a series as the loaders hand it over: sorted by  *)
(* timestamp (load_cgm_data ends in sort_values), duplicates kept.         *)

MaxLen == 4
PostMealTimes == {55, 60, 70, 120}
PostMealGlucose == {90, 135, 180}
InsulinUnits == {None, Num(IntRat(0)), Num(IntRat(2))}
SdThresholds == {1, 2}

InitPostMeal ==
    /\ cgm_data \in SortedFrames(Rows(PostMealTimes, PostMealGlucose), MaxLen)
    /\ anchor \in MealTimes
    /\ op = "init"
    /\ args = <<>>
    /\ result = None
    /\ now = 0
    /\ series = cgm_data
    /\ analyzer = "PostMealAnalysis"
    /\ sessions = <<>>

BaselineDefault ==
    Idle /\ analyzer = "PostMealAnalysis"
         /\ Call("calculate_baseline", [minutes |-> DefaultMinutes],
                 calculate_baseline(cgm_data, anchor, DefaultMinutes))

CalculatePeak == Idle /\ Call("calculate_peak", <<>>, calculate_peak(cgm_data, anchor))

CalculatePeakTime ==
    Idle /\ Call("calculate_peak_time", <<>>, calculate_peak_time(cgm_data, anchor))

RateOfRise ==
    Idle /\ \E r \in rate_of_rise(cgm_data, anchor) : Call("rate_of_rise", <<>>, r)

PeakBaselineRatio ==
    Idle /\ Call("peak_baseline_ratio", <<>>, peak_baseline_ratio(cgm_data, anchor))

GlucoseExcursionAmplitude ==
    Idle /\ Call("glucose_excursion_amplitude", <<>>,
         glucose_excursion_amplitude(cgm_data, anchor))

CalculateIncrementalAuc ==
    Idle /\ \E r \in calculate_incremental_auc(cgm_data, anchor, DefaultHours) :
        Call("calculate_incremental_auc", [hours |-> DefaultHours], r)

CalculateMage ==
    Idle /\ \E sd \in SdThresholds :
        Call("calculate_mage", [hours |-> DefaultHours, sd_threshold |-> sd],
             calculate_mage(cgm_data, anchor, DefaultHours, sd))

HalfLifeEstimate ==
    Idle /\ \E r \in half_life_estimate(cgm_data, anchor) :
        Call("half_life_estimate", <<>>, r)

CalculateInsulinSensitivity ==
    Idle /\ \E u \in InsulinUnits :
        Call("calculate_insulin_sensitivity", [insulin_units |-> u],
             calculate_insulin_sensitivity(cgm_data, anchor, u))

\* the minutes early_phase_auc is called with, and the start_min of late_phase_auc
EarlyMinutes == {10, DefaultMinutes, DefaultHours * MinutesPerHour}
LateStarts == {0, MinutesPerHour}

EarlyPhaseAuc ==
    Idle /\ \E minutes \in EarlyMinutes :
        \E r \in early_phase_auc(cgm_data, anchor, minutes) :
            Call("early_phase_auc", [minutes |-> minutes], r)

LatePhaseAuc ==
    Idle /\ \E start_min \in LateStarts :
        \E r \in late_phase_auc(cgm_data, anchor, start_min, DefaultHours) :
            Call("late_phase_auc", [start_min |-> start_min, end_hours |-> DefaultHours], r)


----------------------------------------------------------------------------
(* half_life_estimate needs four rows in the post-meal window and one      *)
(* before the meal, so its series are one row longer.                      *)

MaxLenHalfLife == 5

\* one pre-meal reading value, every value after the meal
HalfLifeRows == Rows({55}, {90}) \cup Rows(PostMealTimes \ {55}, PostMealGlucose)

InitHalfLife ==
    /\ cgm_data \in SortedFrames(HalfLifeRows, MaxLenHalfLife)
    /\ anchor \in MealTimes
    /\ op = "init"
    /\ args = <<>>
    /\ result = None
    /\ now = 0
    /\ series = cgm_data
    /\ analyzer = "PostMealAnalysis"
    /\ sessions = <<>>

NextHalfLife ==
    \/ BaselineDefault
    \/ HalfLifeEstimate
    \/ Return

SpecHalfLife == InitHalfLife /\ [][NextHalfLife]_vars

----------------------------------------------------------------------------
(* Episode detection: TrendAnalysis holds the frame sorted by timestamp *)

MaxLenTrend == 4
TrendTimes == {0, 30, 60, 65, 120, 185}
TrendGlucose == {65, 200, 250}

InitTrend ==
    /\ cgm_data \in SortedFrames(Rows(TrendTimes, TrendGlucose), MaxLenTrend)
    /\ anchor = 0
    /\ op = "init"
    /\ args = <<>>
    /\ result = None
    /\ now = 0
    /\ series = cgm_data
    /\ analyzer = "TrendAnalysis"
    /\ sessions = <<>>

FindHighEpisodes ==
    Idle /\ analyzer = "TrendAnalysis" /\ \E r \in find_high_episodes(cgm_data) :
        Call("_find_high_episodes", <<>>, r)

FindLowEpisodes ==
    Idle /\ analyzer = "TrendAnalysis" /\ \E r \in find_low_episodes(cgm_data) :
        Call("_find_low_episodes", <<>>, r)


----------------------------------------------------------------------------
(* Circadian patterns: CircadianAnalysis holds the frame sorted *)

MaxLenCircadian == 4
CircadianTimes == {0, 239, 240, 479, 480}
CircadianGlucose == {100, 110, 130}

InitCircadian ==
    /\ cgm_data \in SortedFrames(Rows(CircadianTimes, CircadianGlucose), MaxLenCircadian)
    /\ anchor = 0
    /\ op = "init"
    /\ args = <<>>
    /\ result = None
    /\ now = 0
    /\ series = cgm_data
    /\ analyzer = "CircadianAnalysis"
    /\ sessions = <<>>

DawnPhenomenonAnalysis ==
    Idle /\ analyzer = "CircadianAnalysis"
         /\ Call("dawn_phenomenon_analysis", <<>>, dawn_phenomenon_analysis(cgm_data))

NextCircadian ==
    \/ DawnPhenomenonAnalysis
    \/ Return

SpecCircadian == InitCircadian /\ [][NextCircadian]_vars

----------------------------------------------------------------------------
(* Whole-series metrics on a frame as a caller passes it, in any row order: *)
(* calculate_tir reads it directly, BiomarkerAnalysis and GlucoseAlert sort *)
(* their own copy when they are built.                                      *)

MaxLenSeries == 3
SeriesTimes == {0, 5}
SeriesGlucose == {69, 70, 140, 141}
TirRanges == {<<TirLow, TirHigh>>, <<LowGlucose, HighGlucose>>}

InitSeries ==
    /\ cgm_data \in BoundedSeq(Rows(SeriesTimes, SeriesGlucose), MaxLenSeries)
    /\ anchor = 0
    /\ op = "init"
    /\ args = <<>>
    /\ result = None
    /\ now = 0
    /\ series = cgm_data
    /\ analyzer \in {"cgm", "BiomarkerAnalysis", "GlucoseAlert"}
    /\ sessions = <<>>

CalculateTir ==
    Idle /\ analyzer = "cgm" /\ \E range \in TirRanges :
        Call("calculate_tir", [low |-> range[1], high |-> range[2]],
             calculate_tir(cgm_data, range[1], range[2]))

ExtractFeatures ==
    Idle /\ analyzer = "BiomarkerAnalysis" /\ \E r \in extract_features(cgm_data) :
        Call("extract_features", <<>>, r)

CheckCurrentStatus ==
    Idle /\ analyzer = "GlucoseAlert" /\ \E r \in check_current_status(cgm_data) :
        Call("check_current_status", <<>>, r)

NextSeries ==
    \/ CalculateTir
    \/ ExtractFeatures
    \/ CheckCurrentStatus
    \/ Return

SpecSeries == InitSeries /\ [][NextSeries]_vars

----------------------------------------------------------------------------
(* Properties *)

Indices == DOMAIN cgm_data

\* the sum of the glucose values at a set of positions of the series
RECURSIVE GlucoseAt(_)
GlucoseAt(S) ==
    IF S = {} THEN 0
    ELSE LET i == CHOOSE x \in S : TRUE
         IN  cgm_data[i].glucose + GlucoseAt(S \ {i})

\* positions of the readings above 180 and below 70
HighReadings == { i \in Indices : cgm_data[i].glucose > 180 }
LowReadings == { i \in Indices : cgm_data[i].glucose < 70 }

\* C1: a series with exactly one predicate-true reading yields exactly one
\* episode, a single point whose start and end are that reading's timestamp
\* (for the hypoglycemia detector, whose episodes carry one time, that time).
C1_IsolatedReadingIsOneEpisode ==
    /\ (op = "_find_high_episodes" /\ Cardinality(HighReadings) = 1) =>
           LET t == cgm_data[CHOOSE i \in HighReadings : TRUE].timestamp
           IN  /\ Len(result.items) = 1
               /\ result.items[1].start = IsoFormat(t)
               /\ result.items[1].end = IsoFormat(t)
    /\ (op = "_find_low_episodes" /\ Cardinality(LowReadings) = 1) =>
           LET t == cgm_data[CHOOSE i \in LowReadings : TRUE].timestamp
           IN  /\ Len(result.items) = 1
               /\ result.items[1].time = IsoFormat(t)

\* positions of the readings in the 30 minutes before the meal
PreMeal == { i \in Indices : /\ anchor - 30 <= cgm_data[i].timestamp
                             /\ cgm_data[i].timestamp < anchor }

\* positions of the readings in the two hours from the meal on
PostMeal == { i \in Indices : /\ anchor <= cgm_data[i].timestamp
                              /\ cgm_data[i].timestamp <= anchor + 120 }

BaselineDependent ==
    {"rate_of_rise", "peak_baseline_ratio", "glucose_excursion_amplitude",
     "calculate_incremental_auc", "half_life_estimate", "early_phase_auc",
     "late_phase_auc", "calculate_insulin_sensitivity"}

\* C2: with no reading in the pre-meal window, every baseline-dependent
\* metric returns None (and so does not raise), whatever the post-meal window.
C2_NoBaselineGivesNone ==
    (op \in BaselineDependent /\ PreMeal = {}) => result = None

\* C3: on an empty series every metric returns normally, never raises.
C3_EmptySeriesNeverRaises ==
    (op # "init" /\ cgm_data = <<>>) => result.tag # "raise"

\* C4: MAGE of a window whose samples all have the same glucose is None.
C4_ConstantWindowMageIsNone ==
    (/\ op = "calculate_mage"
     /\ \A i, j \in PostMeal : cgm_data[i].glucose = cgm_data[j].glucose)
        => result = None

\* all orders of the rows of the series
Reorderings ==
    { [i \in Indices |-> cgm_data[p[i]]] : p \in Permutations(Indices) }

InRange == { i \in Indices : /\ args.low <= cgm_data[i].glucose
                             /\ cgm_data[i].glucose <= args.high }

C6_IncrementalAucNonNegative ==
    (op = "calculate_incremental_auc" /\ result # None) =>
        /\ result.tag = "num"
        /\ result.v.n >= 0
        /\ (\A i \in PostMeal :
                cgm_data[i].glucose * Cardinality(PreMeal) <= GlucoseAt(PreMeal))
               => result.v.n = 0

\* a positive area although one sample of the window lies below the baseline,
\* over unevenly spaced samples
C6_Witness ==
    /\ op = "calculate_incremental_auc"
    /\ result.tag = "num"
    /\ result.v.n > 0
    /\ \E i \in PostMeal :
           cgm_data[i].glucose * Cardinality(PreMeal) < GlucoseAt(PreMeal)
    /\ { cgm_data[i].timestamp : i \in PostMeal } = {60, 70, 120}

Lookback == { i \in Indices : /\ anchor - args.minutes <= cgm_data[i].timestamp
                              /\ cgm_data[i].timestamp < anchor }

\* C7: calculate_baseline(minutes) is the mean glucose of exactly the
\* readings with anchor - minutes <= timestamp < anchor, None when there is
\* none, and the reading's own value when there is exactly one.
C7_BaselineIsMeanOfLookback ==
    op = "calculate_baseline" =>
        /\ Lookback = {} => result = None
        /\ Lookback # {} =>
               /\ result.tag = "num"
               /\ result.v.n * Cardinality(Lookback) = result.v.d * GlucoseAt(Lookback)
        /\ \A i \in Lookback :
               Lookback = {i} => result = Num(IntRat(cgm_data[i].glucose))

\* a reading exactly at the anchor is left out and one exactly at
\* anchor - minutes is the only one counted
C7_Witness ==
    /\ op = "calculate_baseline"
    /\ \E i, j \in Indices :
           /\ cgm_data[i].timestamp = anchor
           /\ cgm_data[j].timestamp = anchor - args.minutes
           /\ cgm_data[i].glucose # cgm_data[j].glucose
           /\ Lookback = {j}
           /\ result = Num(IntRat(cgm_data[j].glucose))

\* the query's range: it starts at the event; it ends hours after the meal,
\* at the wake time, or when the medication's effect ends
WindowQueries == {"find_post_meal_window", "find_sleep_window", "find_medication_window"}

WindowEnd ==
    IF op = "find_post_meal_window" THEN anchor + 60 * args.hours
    ELSE IF op = "find_sleep_window" THEN args.wake_time
    ELSE IF args.info = None THEN anchor + 60 * 6
    ELSE anchor + 60 * args.info.duration_hours

InWindow == { i \in Indices : /\ anchor <= cgm_data[i].timestamp
                              /\ cgm_data[i].timestamp <= WindowEnd }

\* the j-th position of InWindow, counting upwards
NthInWindow(j) ==
    CHOOSE i \in InWindow : Cardinality({ k \in InWindow : k <= i }) = j

\* C8: a window query returns exactly the readings with
\* start <= timestamp <= end, in the order they have in the series; with no
\* reading in the range it returns an empty series, not an error.
C8_WindowIsInclusiveSlice ==
    op \in WindowQueries =>
        /\ result.tag = "frame"
        /\ Len(result.rows) = Cardinality(InWindow)
        /\ \A j \in 1..Len(result.rows) : result.rows[j] = cgm_data[NthInWindow(j)]

\* readings on both boundaries are kept, one outside is dropped, and the kept
\* rows stay in the series' own order, which is not the time order
C8_Witness ==
    /\ op = "find_post_meal_window"
    /\ Len(cgm_data) = 3
    /\ cgm_data[1].timestamp = WindowEnd
    /\ cgm_data[2].timestamp > WindowEnd
    /\ cgm_data[3].timestamp = anchor
    /\ result = Frame(<<cgm_data[1], cgm_data[3]>>)

\* an empty range gives an empty frame
C8_WitnessEmpty ==
    /\ op = "find_sleep_window"
    /\ cgm_data # <<>>
    /\ InWindow = {}
    /\ result = Frame(<<>>)

\* the peak of the post-meal window, and the position of its first row
PeakGlucose ==
    CHOOSE g \in { cgm_data[i].glucose : i \in PostMeal } :
        \A i \in PostMeal : cgm_data[i].glucose <= g

PeakAt ==
    CHOOSE i \in PostMeal :
        /\ cgm_data[i].glucose = PeakGlucose
        /\ \A j \in PostMeal : cgm_data[j].glucose = PeakGlucose => i <= j

\* post-peak samples at or below (peak + baseline) / 2
AtHalf ==
    { i \in PostMeal :
        /\ cgm_data[i].timestamp > cgm_data[PeakAt].timestamp
        /\ 2 * cgm_data[i].glucose * Cardinality(PreMeal)
               <= PeakGlucose * Cardinality(PreMeal) + GlucoseAt(PreMeal) }

FirstAtHalf ==
    CHOOSE i \in AtHalf : \A j \in AtHalf : cgm_data[i].timestamp <= cgm_data[j].timestamp

HalfLifeValue ==
    Num(IntRat(2 * (cgm_data[FirstAtHalf].timestamp - cgm_data[PeakAt].timestamp)))

\* C9 as stated: whenever a baseline and a peak exist and a post-peak sample
\* is at or below the midpoint, half_life_estimate returns twice the minutes
\* from the peak to the first such sample; with no such sample it returns None.
C9_HalfLifeWheneverMidpointReached ==
    (op = "half_life_estimate" /\ PreMeal # {} /\ PostMeal # {}) =>
        /\ AtHalf # {} => result = HalfLifeValue
        /\ AtHalf = {} => result = None

\* C9 amended: the same, provided the post-meal window holds at least four
\* readings; with fewer than four readings the result is None.
C9_HalfLifeWithFourReadings ==
    op = "half_life_estimate" =>
        /\ (PreMeal # {} /\ Cardinality(PostMeal) >= 4 /\ AtHalf # {})
               => result = HalfLifeValue
        /\ (PreMeal # {} /\ Cardinality(PostMeal) >= 4 /\ AtHalf = {})
               => result = None
        /\ Cardinality(PostMeal) < 4 => result = None

\* baseline 90, peak 180, the first post-peak sample exactly at the midpoint
\* 135, fifty minutes after the peak: the estimate is 100 minutes
C9_Witness ==
    /\ op = "half_life_estimate"
    /\ Cardinality(PostMeal) >= 4
    /\ PreMeal # {}
    /\ GlucoseAt(PreMeal) = 90 * Cardinality(PreMeal)
    /\ AtHalf # {}
    /\ PeakGlucose = 180
    /\ cgm_data[PeakAt].timestamp = 70
    /\ cgm_data[FirstAtHalf].glucose = 135
    /\ result = Num(IntRat(100))

\* positions of the readings by hour of day
HourOf(i) == (cgm_data[i].timestamp \div 60) % 24
DawnBucket == { i \in Indices : 4 <= HourOf(i) /\ HourOf(i) < 8 }
NightBucket == { i \in Indices : 0 <= HourOf(i) /\ HourOf(i) < 4 }

\* rise = mean(DawnBucket) - mean(NightBucket) = RiseNum / RiseDen, when
\* both buckets are non-empty
RiseNum ==
    GlucoseAt(DawnBucket) * Cardinality(NightBucket)
        - GlucoseAt(NightBucket) * Cardinality(DawnBucket)
RiseDen == Cardinality(DawnBucket) * Cardinality(NightBucket)
RiseExceeds(x) == RiseNum > x * RiseDen

\* C10: dawn_phenomenon_analysis reports no phenomenon when either bucket is
\* empty; otherwise, with rise = mean over hours [4,8) - mean over hours [0,4),
\* it flags the phenomenon iff rise > 10, with severity marked iff rise > 20,
\* mild iff 10 < rise <= 20 and none otherwise; the reported rise_amount is
\* the rise to one decimal.
C10_DawnRiseAndSeverity ==
    op = "dawn_phenomenon_analysis" =>
        /\ (DawnBucket = {} \/ NightBucket = {}) => result.dawn_phenomenon = FALSE
        /\ (DawnBucket # {} /\ NightBucket # {}) =>
               /\ result.dawn_phenomenon = RiseExceeds(10)
               /\ result.severity = "marked" <=> RiseExceeds(20)
               /\ result.severity = "mild" <=> (RiseExceeds(10) /\ ~RiseExceeds(20))
               /\ result.severity = "none" <=> ~RiseExceeds(10)
               /\ 10 % result.rise_amount.d = 0
               /\ Abs(20 * RiseNum * result.rise_amount.d
                      - 20 * result.rise_amount.n * RiseDen)
                      <= RiseDen * result.rise_amount.d

\* readings all 100 in [0,4) and all 130 in [4,8): rise 30, marked
C10_Witness ==
    /\ op = "dawn_phenomenon_analysis"
    /\ Cardinality(DawnBucket) >= 2
    /\ Cardinality(NightBucket) >= 2
    /\ \A i, j \in Indices : i # j => cgm_data[i].timestamp # cgm_data[j].timestamp
    /\ \A i \in NightBucket : cgm_data[i].glucose = 100
    /\ \A i \in DawnBucket : cgm_data[i].glucose = 130
    /\ result.dawn_phenomenon = TRUE
    /\ result.rise_amount = IntRat(30)
    /\ result.severity = "marked"

----------------------------------------------------------------------------
(* Splitting a series: the part up to split + max_gap and the part from    *)
(* split on share the readings of [split, split + max_gap].                *)

IsoMinutes(iso) == iso.day * 1440 + iso.hour * 60 + iso.minute

FirstHalf(s, gap) == SelectSeq(cgm_data, LAMBDA r : r.timestamp <= s + gap)
SecondHalf(s) == SelectSeq(cgm_data, LAMBDA r : r.timestamp >= s)

MaxOf(x, y) == IF x >= y THEN x ELSE y
MinOf(x, y) == IF x <= y THEN x ELSE y

\* the two episode lists joined: the first episode of b continues the last
\* episode of a when it starts inside the shared part
MergeHigh(a, b, s) ==
    IF a = <<>> THEN b
    ELSE IF b = <<>> THEN a
    ELSE LET x == a[Len(a)]
             y == b[1]
             joined == [start |-> x.start,
                        end |-> y.end,
                        duration_hours |->
                            Round1(Rat(IsoMinutes(y.end) - IsoMinutes(x.start), 60)),
                        max_glucose |-> MaxOf(x.max_glucose, y.max_glucose)]
         IN  IF IsoMinutes(y.start) <= s + 60
             THEN SubSeq(a, 1, Len(a) - 1) \o <<joined>> \o Tail(b)
             ELSE a \o b

MergeLow(a, b, s) ==
    IF a = <<>> THEN b
    ELSE IF b = <<>> THEN a
    ELSE LET x == a[Len(a)]
             y == b[1]
             joined == [time |-> x.time,
                        min_glucose |-> MinOf(x.min_glucose, y.min_glucose)]
         IN  IF IsoMinutes(y.time) <= s + 30
             THEN SubSeq(a, 1, Len(a) - 1) \o <<joined>> \o Tail(b)
             ELSE a \o b

\* C11: for every split point, segmenting the two overlapping halves
\* separately and merging the episodes adjacent across the split gives the
\* episode list of the whole series, for the high and the low detector.
C11_SplitMergeEqualsWhole ==
    /\ op = "_find_high_episodes" =>
           \A s \in TrendTimes :
               \E a \in find_high_episodes(FirstHalf(s, 60)),
                  b \in find_high_episodes(SecondHalf(s)) :
                   result.items = MergeHigh(a.items, b.items, s)
    /\ op = "_find_low_episodes" =>
           \A s \in TrendTimes :
               \E a \in find_low_episodes(FirstHalf(s, 30)),
                  b \in find_low_episodes(SecondHalf(s)) :
                   result.items = MergeLow(a.items, b.items, s)

----------------------------------------------------------------------------
(* analysis_enhanced.py: IllnessAnalysis.compare_recent_days and           *)
(* ReportGenerator.generate_weekly_report filter the series against        *)
(* datetime.now(); both analyzers hold the frame sorted by timestamp.      *)

DefaultDays == 7
WeekDays == 7
ChangeThreshold == 20
TirGoalLow == 50
TirGoalGood == 70
StdHigh == 30

\* what the three datetime.now() calls of compare_recent_days may return when
\* the method starts at clock n: the clock never goes back and may tick
\* between two reads
ClockReads(n) ==
    { c \in (n..(n + 1)) \X (n..(n + 1)) \X (n..(n + 1)) : c[1] <= c[2] /\ c[2] <= c[3] }

\* compare_recent_days(days), c the three clock readings in evaluation order
compare_recent_days(df, days, c) ==
    LET span == days * MinutesPerDay
        recent == SelectSeq(df, LAMBDA r : r.timestamp >= c[1] - span)
        previous == SelectSeq(df, LAMBDA r : /\ r.timestamp >= c[2] - 2 * span
                                             /\ r.timestamp < c[3] - span)
    IN  IF recent = <<>> \/ previous = <<>>
        THEN [tag |-> "dict", error |-> "insufficient data"]
        ELSE LET recent_mean == MeanGlucose(recent)
                 previous_mean == MeanGlucose(previous)
                 change == RatSub(recent_mean, previous_mean)
             IN  [tag |-> "dict",
                  recent_mean |-> Round1(recent_mean),
                  previous_mean |-> Round1(previous_mean),
                  change |-> Round1(change),
                  interpretation |->
                      IF RatLt(IntRat(ChangeThreshold), change) THEN "rising"
                      ELSE IF RatLt(change, IntRat(-ChangeThreshold)) THEN "falling"
                      ELSE "stable"]

\* timestamp.dt.date, as a day number
Date(r) == r.timestamp \div MinutesPerDay

\* the keys of groupby('date'), in ascending order
RECURSIVE SortedDates(_)
SortedDates(S) ==
    IF S = {} THEN <<>>
    ELSE LET m == CHOOSE x \in S : \A y \in S : x <= y
         IN  <<m>> \o SortedDates(S \ {m})

OnDate(df, d) == SelectSeq(df, LAMBDA r : Date(r) = d)

\* daily['mean'].idxmin() / idxmax(): the first date holding the extreme mean
BestDay(df, dates) ==
    dates[CHOOSE i \in DOMAIN dates :
            /\ \A j \in DOMAIN dates :
                   RatLe(MeanGlucose(OnDate(df, dates[i])), MeanGlucose(OnDate(df, dates[j])))
            /\ \A j \in 1..(i - 1) :
                   MeanGlucose(OnDate(df, dates[j])) # MeanGlucose(OnDate(df, dates[i]))]

WorstDay(df, dates) ==
    dates[CHOOSE i \in DOMAIN dates :
            /\ \A j \in DOMAIN dates :
                   RatLe(MeanGlucose(OnDate(df, dates[j])), MeanGlucose(OnDate(df, dates[i])))
            /\ \A j \in 1..(i - 1) :
                   MeanGlucose(OnDate(df, dates[j])) # MeanGlucose(OnDate(df, dates[i]))]

\* generate_weekly_report() run at clock n.  Texts are named by what they
\* report; gv is round(100 * sqrt(gv_squared), 1), kept here by its square.
generate_weekly_report(df, n) ==
    LET week_data == SelectSeq(df, LAMBDA r : r.timestamp >= n - WeekDays * MinutesPerDay)
        total == Len(week_data)
        dates == SortedDates({ Date(week_data[i]) : i \in DOMAIN week_data })
        in_range == Len(SelectSeq(week_data, LAMBDA r : /\ r.glucose >= LowGlucose
                                                        /\ r.glucose <= HighGlucose))
        tir == RatMul(Rat(in_range, total), IntRat(100))
        std_high == total >= 2 /\ VarNum(week_data) > StdHigh * StdHigh * VarDen(week_data)
    IN  IF week_data = <<>>
        THEN [tag |-> "dict", error |-> "insufficient data"]
        ELSE [tag |-> "dict",
              period |-> "7 days",
              overview |->
                  [total_readings |-> total,
                   mean_glucose |-> Round1(MeanGlucose(week_data)),
                   tir |-> Round1(tir),
                   gv_squared |->
                       IF total < 2 THEN NaN
                       ELSE Num(Rat(VarNum(week_data) * total * total,
                                    VarDen(week_data) * SumGlucose(week_data)
                                        * SumGlucose(week_data)))],
              daily_summary |->
                  [i \in DOMAIN dates |->
                      [date |-> dates[i],
                       mean |-> Round1(MeanGlucose(OnDate(week_data, dates[i]))),
                       min |-> MinGlucose(OnDate(week_data, dates[i])),
                       max |-> MaxGlucose(OnDate(week_data, dates[i]))]],
              highlights |->
                  <<[best_day |-> BestDay(week_data, dates),
                     mean |-> Round1(MeanGlucose(OnDate(week_data, BestDay(week_data, dates))))],
                    [worst_day |-> WorstDay(week_data, dates),
                     mean |-> Round1(MeanGlucose(OnDate(week_data, WorstDay(week_data, dates))))]>>,
              recommendations |->
                  (IF RatLt(tir, IntRat(TirGoalLow)) THEN <<"tir_low">> ELSE <<>>)
                  \o (IF RatLe(IntRat(TirGoalGood), tir) THEN <<"tir_good">> ELSE <<>>)
                  \o (IF std_high THEN <<"high_variability">> ELSE <<>>)]

MaxLenReport == 3
ReportTimes == {0, 5, 10080, 10085, 20160}
ReportGlucose == {65, 100, 200}
Clocks == {20160, 20165, 21600}
DayCounts == {1, DefaultDays}

InitReport ==
    /\ cgm_data \in SortedFrames(Rows(ReportTimes, ReportGlucose), MaxLenReport)
    /\ anchor = 0
    /\ op = "init"
    /\ args = <<>>
    /\ result = None
    /\ now \in Clocks
    /\ series = cgm_data
    /\ analyzer \in {"IllnessAnalysis", "ReportGenerator"}
    /\ sessions = <<>>

\* time passes between two calls
Tick ==
    /\ Idle
    /\ \E n \in Clocks : n > now /\ now' = n
    /\ UNCHANGED <<cgm_data, anchor, op, args, result, series, analyzer, sessions>>

CompareRecentDays ==
    Idle /\ analyzer = "IllnessAnalysis" /\ \E days \in DayCounts, c \in ClockReads(now) :
        Call("compare_recent_days", [days |-> days],
             compare_recent_days(cgm_data, days, c))

GenerateWeeklyReport ==
    Idle /\ analyzer = "ReportGenerator"
         /\ Call("generate_weekly_report", <<>>, generate_weekly_report(cgm_data, now))

NextReport ==
    \/ CompareRecentDays
    \/ GenerateWeeklyReport
    \/ Tick
    \/ Return

SpecReport == InitReport /\ [][NextReport]_vars

\* C12: a call's result depends only on the series and the arguments: whatever
\* the wall clock reads when compare_recent_days or generate_weekly_report
\* runs, the result is the one the same call gives at any other clock time.
C12_ResultIndependentOfClock ==
    /\ op = "compare_recent_days" =>
           \A n \in Clocks : \E c \in ClockReads(n) :
               result = compare_recent_days(cgm_data, args.days, c)
    /\ op = "generate_weekly_report" =>
           \A n \in Clocks : result = generate_weekly_report(cgm_data, n)

----------------------------------------------------------------------------
(* Analyzer objects.  An analyzer keeps a frame in self.cgm_data: the      *)
(* caller's own frame (PostMealAnalysis) or the copy sort_values returns.  *)
(* Some methods add a column to self.cgm_data before they read it.         *)

\* the float sqrt(r), kept by its argument
Sqrt(r) == [tag |-> "sqrt", of |-> r]

\* df[name] = values: the column is added, or overwritten when it exists
AddColumn(df, name, values) ==
    [i \in DOMAIN df |->
        [c \in (DOMAIN df[i]) \cup {name} |-> IF c = name THEN values[i] ELSE df[i][c]]]

\* every __init__ keeping the caller's frame itself
AliasesAlways(a) == TRUE

\* the classes whose __init__ keeps the caller's frame itself
Aliases(a) == a \in {"PostMealAnalysis", "SleepAnalysis", "MedicationAnalysis"}

\* timestamp.dt.dayofweek, day 0 being a Monday
DayOfWeek(r) == (r.timestamp \div MinutesPerDay) % 7

\* __init__: the frames self.cgm_data may hold for a caller's frame s
Construct(a, s) ==
    IF Aliases(a) THEN {s}
    ELSE IF a = "CircadianAnalysis"
    THEN { AddColumn(AddColumn(f, "hour", [i \in DOMAIN f |-> Hour(f[i])]),
                     "weekday", [i \in DOMAIN f |-> DayOfWeek(f[i])]) :
               f \in SortValues(s) }
    ELSE SortValues(s)

\* ---- trend.py: TrendAnalysis.daily_summary

\* self.cgm_data['date'] = self.cgm_data['timestamp'].dt.date, written over
\* the timestamp column instead of a column of its own
daily_summary_frame_over_timestamp(df) ==
    AddColumn(AddColumn(df, "date", [i \in DOMAIN df |-> Date(df[i])]),
              "timestamp", [i \in DOMAIN df |-> Date(df[i]) * MinutesPerDay])

\* self.cgm_data['date'] = self.cgm_data['timestamp'].dt.date
daily_summary_frame(df) == AddColumn(df, "date", [i \in DOMAIN df |-> Date(df[i])])

\* TrendAnalysis._calculate_tir(day_data), default range 70..180
trend_calculate_tir(day_data) ==
    LET in_range == Len(SelectSeq(day_data, LAMBDA r : /\ r.glucose >= LowGlucose
                                                       /\ r.glucose <= HighGlucose))
    IN  IF Len(day_data) > 0 THEN Num(RatMul(Rat(in_range, Len(day_data)), IntRat(100)))
        ELSE Num(IntRat(0))

\* the glucose values of a non-empty frame in ascending order
RECURSIVE SortedGlucose(_)
SortedGlucose(df) ==
    IF df = <<>> THEN <<>>
    ELSE LET i == CHOOSE k \in DOMAIN df : df[k].glucose = MinGlucose(df)
         IN  <<df[i].glucose>> \o SortedGlucose(RemoveAt(df, i))

\* Series.median()
Median(df) ==
    LET v == SortedGlucose(df)
        n == Len(v)
    IN  IF n % 2 = 1 THEN IntRat(v[(n + 1) \div 2])
        ELSE Rat(v[n \div 2] + v[n \div 2 + 1], 2)

\* daily_summary(), df being self.cgm_data with its date column
daily_summary(df) ==
    LET dates == SortedDates({ df[i].date : i \in DOMAIN df })
    IN  List([k \in DOMAIN dates |->
              LET group == SelectSeq(df, LAMBDA r : r.date = dates[k])
              IN  [date |-> dates[k],
                   mean |-> Num(MeanGlucose(group)),
                   median |-> Num(Median(group)),
                   std |-> IF Len(group) < 2 THEN NaN
                           ELSE Sqrt(Rat(VarNum(group), VarDen(group))),
                   min |-> MinGlucose(group),
                   max |-> MaxGlucose(group),
                   data_points |-> Len(group),
                   tir |-> trend_calculate_tir(group)]])

\* ---- analysis.py: analyze_glucose; clinical.py: ClinicalTrial.calculate_endpoints

\* count / len(df) * 100 on numpy integers: nan when the frame is empty
ShareOf(count, total) ==
    IF total = 0 THEN NaN ELSE Num(RatMul(Rat(count, total), IntRat(100)))

\* Series.std(), nan below two values
StdOf(df) == IF Len(df) < 2 THEN NaN ELSE Sqrt(Rat(VarNum(df), VarDen(df)))

\* std / mean * 100 of two or more values, as the expression it is
CvOf(df) == [tag |-> "cv", std |-> StdOf(df), mean |-> MeanGlucose(df)]

\* cgm.py: calculate_gv(df); a comparison with nan is false
calculate_gv(df) ==
    IF df = <<>> THEN Num(IntRat(0))
    ELSE IF MeanGlucose(df).n > 0 THEN (IF Len(df) < 2 THEN NaN ELSE CvOf(df))
    ELSE Num(IntRat(0))

BelowSevere == 54
AboveSevere == 250

analyze_glucose(df) ==
    LET n == Len(df)
    IN  [tag |-> "dict",
         mean_glucose |-> IF n = 0 THEN NaN ELSE Num(MeanGlucose(df)),
         median_glucose |-> IF n = 0 THEN NaN ELSE Num(Median(df)),
         std_glucose |-> StdOf(df),
         min_glucose |-> IF n = 0 THEN NaN ELSE Num(IntRat(MinGlucose(df))),
         max_glucose |-> IF n = 0 THEN NaN ELSE Num(IntRat(MaxGlucose(df))),
         tir |-> calculate_tir(df, TirLow, TirHigh),
         gv |-> calculate_gv(df),
         time_below_70 |-> ShareOf(Len(SelectSeq(df, LAMBDA r : r.glucose < LowGlucose)), n),
         time_below_54 |-> ShareOf(Len(SelectSeq(df, LAMBDA r : r.glucose < BelowSevere)), n),
         time_above_180 |-> ShareOf(Len(SelectSeq(df, LAMBDA r : r.glucose > HighGlucose)), n),
         time_above_250 |-> ShareOf(Len(SelectSeq(df, LAMBDA r : r.glucose > AboveSevere)), n)]

\* round(x, 1) of a share; round(nan, 1) is nan
RoundShare(x) == IF x = NaN THEN NaN ELSE Num(Round1(x.v))

\* calculate_endpoints(), df being self.cgm_data
calculate_endpoints(df) ==
    LET n == Len(df)
        in_range == Len(SelectSeq(df, LAMBDA r :
                        r.glucose >= LowGlucose /\ r.glucose <= HighGlucose))
        below_70 == Len(SelectSeq(df, LAMBDA r : r.glucose < LowGlucose))
        above_180 == Len(SelectSeq(df, LAMBDA r : r.glucose > HighGlucose))
    IN  [tag |-> "dict",
         endpoints |->
             [primary_tir |-> RoundShare(ShareOf(in_range, n)),
              mean_glucose |-> IF n = 0 THEN NaN ELSE Num(Round1(MeanGlucose(df))),
              gv |-> IF n < 2 THEN NaN ELSE [tag |-> "round1", of |-> CvOf(df)],
              tbr |-> RoundShare(ShareOf(below_70, n)),
              tar |-> RoundShare(ShareOf(above_180, n))]]

\* ---- analysis_enhanced.py: StressAnalysis.detect_stress_periods

StressGlucose == 160
MinStressHours == 2
ManyStressPeriods == 3

\* self.cgm_data['hour'] = self.cgm_data['timestamp'].dt.floor('H')
stress_frame(df) ==
    AddColumn(df, "hour",
              [i \in DOMAIN df |-> (df[i].timestamp \div MinutesPerHour) * MinutesPerHour])

\* groupby('hour')['glucose'].mean(): one entry per hour that has readings,
\* in ascending order
HourlyMeans(df) ==
    LET hours == SortedDates({ df[i].hour : i \in DOMAIN df })
    IN  [k \in DOMAIN hours |->
            [hour |-> hours[k],
             glucose |-> MeanGlucose(SelectSeq(df, LAMBDA r : r.hour = hours[k]))]]

RECURSIVE RatSum(_)
RatSum(s) == IF s = <<>> THEN IntRat(0) ELSE RatAdd(s[1].glucose, RatSum(Tail(s)))

\* hourly[start_hour:hour].mean(): a label slice, both ends included
HourlySliceMean(hourly, start_hour, hour) ==
    LET part == SelectSeq(hourly, LAMBDA e : e.hour >= start_hour /\ e.hour <= hour)
    IN  RatDiv(RatSum(part), IntRat(Len(part)))

\* the loop of detect_stress_periods over hourly.items()
RECURSIVE StressLoop(_, _, _, _, _)
StressLoop(hourly, i, consecutive, start_hour, stress_periods) ==
    IF i > Len(hourly) THEN stress_periods
    ELSE IF RatLt(IntRat(StressGlucose), hourly[i].glucose)
    THEN StressLoop(hourly, i + 1, consecutive + 1,
                    IF consecutive = 0 THEN Time(hourly[i].hour) ELSE start_hour,
                    stress_periods)
    ELSE StressLoop(hourly, i + 1, 0, None,
                    IF consecutive >= MinStressHours
                    THEN Append(stress_periods,
                             [start |-> IsoFormat(start_hour.v),
                              end |-> IsoFormat(start_hour.v + consecutive * MinutesPerHour),
                              duration_hours |-> consecutive,
                              avg_glucose |->
                                  Round1(HourlySliceMean(hourly, start_hour.v,
                                                         hourly[i].hour))])
                    ELSE stress_periods)

\* detect_stress_periods(), df being self.cgm_data with its hour column
detect_stress_periods(df) ==
    LET stress_periods == StressLoop(HourlyMeans(df), 1, 0, None, <<>>)
    IN  [tag |-> "dict",
         stress_periods |-> stress_periods,
         total_periods |-> Len(stress_periods),
         interpretation |-> IF Len(stress_periods) > ManyStressPeriods
                            THEN "manage stress" ELSE "normal"]

\* ---- circadian.py: BiomarkerAnalysis.classify_phenotype

PhenotypeTirGood == 70
PhenotypeTirMedium == 50
CvStable == 20
CvFluctuating == 35
PhenotypeDawnRise == 15
NightEndHour == 6

\* self.cgm_data['hour'] = self.cgm_data['timestamp'].dt.hour
phenotype_frame(df) == AddColumn(df, "hour", [i \in DOMAIN df |-> Hour(df[i])])

\* classify_phenotype() given the features extract_features returned, df
\* being self.cgm_data with its hour column; a comparison with NaN is false
classify_phenotype(df, features) ==
    LET tir_type == IF RatLe(IntRat(PhenotypeTirGood), features.tir.v) THEN "tir good"
                    ELSE IF RatLe(IntRat(PhenotypeTirMedium), features.tir.v)
                    THEN "tir medium" ELSE "tir poor"
        var_type == IF features.cv.tag = "num" /\ RatLt(features.cv.v, IntRat(CvStable))
                    THEN "stable"
                    ELSE IF features.cv.tag = "num"
                            /\ RatLt(features.cv.v, IntRat(CvFluctuating))
                    THEN "fluctuating" ELSE "highly variable"
        dawn == SelectSeq(df, LAMBDA r : r.hour >= DawnStartHour /\ r.hour < DawnEndHour)
        night == SelectSeq(df, LAMBDA r : r.hour >= 0 /\ r.hour < DawnStartHour)
        night_data == SelectSeq(df, LAMBDA r : r.hour >= 0 /\ r.hour < NightEndHour)
    IN  [tag |-> "dict",
         phenotype |->
             <<tir_type, var_type>>
             \o (IF /\ dawn # <<>>
                    /\ night # <<>>
                    /\ RatLt(IntRat(PhenotypeDawnRise),
                             RatSub(MeanGlucose(dawn), MeanGlucose(night)))
                 THEN <<"dawn phenomenon">> ELSE <<>>)
             \o (IF night_data # <<>> /\ MinGlucose(night_data) < LowGlucose
                 THEN <<"night low">> ELSE <<>>),
         primary_type |-> tir_type,
         variability_type |-> var_type]

\* ---- postmeal.py: PostMealAnalysis.calculate_total_auc

\* the trapezoid loop of calculate_total_auc over the sorted window,
\* time_diff in minutes
RECURSIVE TrapezoidTotal(_)
TrapezoidTotal(ws) ==
    IF Len(ws) < 2 THEN IntRat(0)
    ELSE LET n == Len(ws)
             h == ws[n].glucose + ws[n - 1].glucose
             t == ws[n].timestamp - ws[n - 1].timestamp
         IN  RatAdd(TrapezoidTotal(SubSeq(ws, 1, n - 1)), Rat(h * t, 2))

\* calculate_total_auc(hours): the set of possible outcomes.  The window and
\* its time_diff column are frames of their own, not self.cgm_data.
calculate_total_auc(df, mt, hours) ==
    LET window == find_post_meal_window(df, mt, hours)
    IN  IF window = <<>> \/ Len(window) < 2 THEN {None}
        ELSE { Num(TrapezoidTotal(ws)) : ws \in SortValues(window) }

\* ---- the analyzer objects as a state machine

MaxLenAnalyzer == 3
AnalyzerTimes == {0, 30, 65, 1440}
AnalyzerGlucose == {65, 200}
AnalyzerClasses ==
    {"TrendAnalysis", "BiomarkerAnalysis", "StressAnalysis", "CircadianAnalysis",
     "PostMealAnalysis"}

\* the caller holds a frame; no analyzer has been built from it yet
InitAnalyzer ==
    /\ series \in BoundedSeq(Rows(AnalyzerTimes, AnalyzerGlucose), MaxLenAnalyzer)
    /\ cgm_data = <<>>
    /\ analyzer = "none"
    /\ sessions = <<>>
    /\ anchor \in MealTimes
    /\ op = "init"
    /\ args = <<>>
    /\ result = None
    /\ now = 0

\* Analyzer(series): __init__ stores the frame or a sorted copy of it
NewAnalyzer ==
    /\ analyzer = "none"
    /\ \E a \in AnalyzerClasses : \E f \in Construct(a, series) :
        /\ analyzer' = a
        /\ cgm_data' = f
        /\ series' = (IF Aliases(a) THEN f ELSE series)
    /\ UNCHANGED <<anchor, op, args, result, now, sessions>>

\* a method that assigns a column of self.cgm_data, f being the frame after
\* the assignment: the caller's frame is the same object when __init__ kept it
CallWriting(name, a, r, f) ==
    /\ op' = name
    /\ args' = a
    /\ result' = r
    /\ cgm_data' = f
    /\ series' = (IF Aliases(analyzer) THEN f ELSE series)
    /\ UNCHANGED <<anchor, now, analyzer, sessions>>

DailySummary ==
    Idle /\ analyzer = "TrendAnalysis"
         /\ LET f == daily_summary_frame(cgm_data)
            IN  CallWriting("daily_summary", <<>>, daily_summary(f), f)

DetectStressPeriods ==
    Idle /\ analyzer = "StressAnalysis"
         /\ LET f == stress_frame(cgm_data)
            IN  CallWriting("detect_stress_periods", <<>>, detect_stress_periods(f), f)

\* extract_features raises before the hour column is assigned
ClassifyPhenotype ==
    Idle /\ analyzer = "BiomarkerAnalysis" /\ \E e \in extract_features(cgm_data) :
        IF e.tag = "raise" THEN Call("classify_phenotype", <<>>, e)
        ELSE LET f == phenotype_frame(cgm_data)
             IN  CallWriting("classify_phenotype", <<>>,
                             classify_phenotype(f, e.biomarkers), f)

CalculateTotalAuc ==
    Idle /\ analyzer = "PostMealAnalysis"
         /\ \E r \in calculate_total_auc(cgm_data, anchor, DefaultHours) :
                Call("calculate_total_auc", [hours |-> DefaultHours], r)

NextAnalyzer ==
    \/ NewAnalyzer
    \/ DailySummary
    \/ FindHighEpisodes
    \/ FindLowEpisodes
    \/ ExtractFeatures
    \/ ClassifyPhenotype
    \/ DetectStressPeriods
    \/ DawnPhenomenonAnalysis
    \/ BaselineDefault
    \/ CalculateTotalAuc
    \/ Return

SpecAnalyzer == InitAnalyzer /\ [][NextAnalyzer]_vars

NextTrend ==
    \/ FindHighEpisodes
    \/ FindLowEpisodes
    \/ Return

SpecTrend == InitTrend /\ [][NextTrend]_vars

RateOfDecline ==
    Idle /\ analyzer = "PostMealAnalysis"
         /\ \E r \in rate_of_decline(cgm_data, anchor) : Call("rate_of_decline", <<>>, r)

\* count_excursions: the loop over window['glucose'].iloc[1:]
RECURSIVE ExcursionLoop(_, _, _, _, _, _)
ExcursionLoop(window, i, prev, direction, count, threshold) ==
    IF i > Len(window) THEN count
    ELSE LET g == window[i].glucose
             diff == g - prev
             new_direction == IF diff > 0 THEN 1 ELSE -1
         IN  IF Abs(diff) >= threshold
             THEN ExcursionLoop(window, i + 1, g, new_direction,
                                IF direction # 0 /\ new_direction # direction
                                THEN count + 1 ELSE count,
                                threshold)
             ELSE ExcursionLoop(window, i + 1, g, direction, count, threshold)

count_excursions(df, mt, hours, threshold) ==
    LET window == find_post_meal_window(df, mt, hours)
    IN  IF window = <<>> THEN None
        ELSE Num(IntRat(ExcursionLoop(window, 2, window[1].glucose, 0, 0, threshold)))

DefaultThreshold == 10
ExcursionThresholds == {DefaultThreshold, 90}

CountExcursions ==
    Idle /\ analyzer = "PostMealAnalysis"
         /\ \E threshold \in ExcursionThresholds :
                Call("count_excursions", [hours |-> DefaultHours, threshold |-> threshold],
                     count_excursions(cgm_data, anchor, DefaultHours, threshold))

\* the metrics of PostMealAnalysis over a frame in time order
NextPostMeal ==
    \/ BaselineDefault
    \/ CalculatePeak
    \/ CalculatePeakTime
    \/ RateOfRise
    \/ PeakBaselineRatio
    \/ GlucoseExcursionAmplitude
    \/ CalculateTotalAuc
    \/ CalculateIncrementalAuc
    \/ CalculateMage
    \/ HalfLifeEstimate
    \/ CalculateInsulinSensitivity
    \/ EarlyPhaseAuc
    \/ LatePhaseAuc
    \/ Return

SpecPostMeal == InitPostMeal /\ [][NextPostMeal]_vars

\* the three episode detectors, each over its analyzer's frame in time order
MaxLenEpisodes == 3
EpisodeTimes == {0, 30, 60, 120}
EpisodeGlucose == {65, 200}

InitEpisodes ==
    /\ cgm_data \in SortedFrames(Rows(EpisodeTimes, EpisodeGlucose), MaxLenEpisodes)
    /\ anchor = 0
    /\ op = "init"
    /\ args = <<>>
    /\ result = None
    /\ now = 0
    /\ series = cgm_data
    /\ analyzer \in {"TrendAnalysis", "StressAnalysis"}
    /\ sessions = <<>>

NextEpisodes ==
    \/ FindHighEpisodes
    \/ FindLowEpisodes
    \/ DetectStressPeriods
    \/ Return

SpecEpisodes == InitEpisodes /\ [][NextEpisodes]_vars

\* the outcomes of a method called first on an analyzer whose frame is f
MethodOnFresh(name, a, f, mt) ==
    CASE name = "daily_summary" -> {daily_summary(daily_summary_frame(f))}
      [] name = "_find_high_episodes" -> find_high_episodes(f)
      [] name = "_find_low_episodes" -> find_low_episodes(f)
      [] name = "extract_features" -> extract_features(f)
      [] name = "classify_phenotype" ->
             { IF e.tag = "raise" THEN e
               ELSE classify_phenotype(phenotype_frame(f), e.biomarkers) :
                   e \in extract_features(f) }
      [] name = "detect_stress_periods" -> {detect_stress_periods(stress_frame(f))}
      [] name = "dawn_phenomenon_analysis" -> {dawn_phenomenon_analysis(f)}
      [] name = "calculate_baseline" -> {calculate_baseline(f, mt, a.minutes)}
      [] name = "calculate_total_auc" -> calculate_total_auc(f, mt, a.hours)

\* the outcomes of a method called first on a fresh object of class c built
\* over the series s
FreshResults(c, name, a, s, mt) ==
    UNION { MethodOnFresh(name, a, f, mt) : f \in Construct(c, s) }

\* C13: whatever methods were called before on an analyzer object, each
\* method returns a result that the same call returns when it is the first
\* call on a fresh object of the same class over the same series.
C13_NoStateAcrossCalls ==
    op # "init" => result \in FreshResults(analyzer, op, args, series, anchor)

\* a low episode is reported by an object whose daily_summary ran before
C13_Witness ==
    /\ op = "_find_low_episodes"
    /\ result.items # <<>>
    /\ "date" \in DOMAIN cgm_data[1]

----------------------------------------------------------------------------
(* postmeal.py: MealSession and RepeatedMealAnalyzer                        *)

\* MealSession(t) after k calls of add_food: every MealRecord of a session
\* carries the session's timestamp
MealSession(t, k) == [timestamp |-> t, meals |-> [i \in 1..k |-> t]]

RECURSIVE SumRats(_)
SumRats(s) == IF s = <<>> THEN IntRat(0) ELSE RatAdd(s[1], SumRats(Tail(s)))

\* np.mean(values) of a non-empty list
MeanRats(s) == RatDiv(SumRats(s), IntRat(Len(s)))

\* np.std(values) squared: the population variance
PopVariance(s) ==
    LET m == MeanRats(s)
    IN  RatDiv(SumRats([i \in DOMAIN s |-> RatMul(RatSub(s[i], m), RatSub(s[i], m))]),
               IntRat(Len(s)))

\* the mean/std/values entry analyze_repeated builds for one metric
Statistics(values) ==
    [mean |-> IF values # <<>> THEN Num(MeanRats(values)) ELSE None,
     std |-> IF Len(values) > 1 THEN Sqrt(PopVariance(values)) ELSE Num(IntRat(0)),
     values |-> values]

\* the loop of analyze_repeated over the first n sessions: the possible
\* contents of the four lists
RECURSIVE RepeatedLoop(_, _, _)
RepeatedLoop(ss, df, n) ==
    IF n = 0
    THEN {[responses |-> <<>>, peaks |-> <<>>, baselines |-> <<>>, iaucs |-> <<>>]}
    ELSE IF ss[n].meals = <<>> THEN RepeatedLoop(ss, df, n - 1)
    ELSE LET mt == ss[n].meals[1]
             resp == glucose_excursion_amplitude(df, mt)
             peak == calculate_peak(df, mt)
             baseline == calculate_baseline(df, mt, DefaultMinutes)
         IN  { [responses |-> IF IsNone(resp) THEN acc.responses
                              ELSE Append(acc.responses, resp.v),
                peaks |-> IF IsNone(peak) THEN acc.peaks ELSE Append(acc.peaks, peak.v),
                baselines |-> IF IsNone(baseline) THEN acc.baselines
                              ELSE Append(acc.baselines, baseline.v),
                iaucs |-> IF IsNone(iauc) THEN acc.iaucs ELSE Append(acc.iaucs, iauc.v)] :
                   acc \in RepeatedLoop(ss, df, n - 1),
                   iauc \in calculate_incremental_auc(df, mt, DefaultHours) }

\* analyze_repeated(cgm_data): the set of possible outcomes
analyze_repeated(ss, df) ==
    IF ss = <<>> THEN {[tag |-> "dict"]}
    ELSE { [tag |-> "dict",
            sample_count |-> Len(ss),
            response_magnitude |-> Statistics(acc.responses),
            peak_glucose |-> Statistics(acc.peaks),
            baseline_glucose |-> Statistics(acc.baselines),
            iauc_2h |-> Statistics(acc.iaucs)] : acc \in RepeatedLoop(ss, df, Len(ss)) }

MaxLenRepeated == 3
MaxSessions == 2
RepeatedTimes == {40, 70, 190}
RepeatedGlucose == {90, 135}
SessionTimes == {60, 200}
MealCounts == {0, 1}

InitRepeated ==
    /\ cgm_data \in SortedFrames(Rows(RepeatedTimes, RepeatedGlucose), MaxLenRepeated)
    /\ anchor = 0
    /\ op = "init"
    /\ args = <<>>
    /\ result = None
    /\ now = 0
    /\ series = cgm_data
    /\ analyzer = "RepeatedMealAnalyzer"
    /\ sessions = <<>>

\* add_session(session)
AddSession ==
    /\ Idle
    /\ Len(sessions) < MaxSessions
    /\ \E t \in SessionTimes, k \in MealCounts :
           sessions' = Append(sessions, MealSession(t, k))
    /\ UNCHANGED <<cgm_data, anchor, op, args, result, now, series, analyzer>>

AnalyzeRepeated ==
    Idle /\ \E r \in analyze_repeated(sessions, cgm_data) : Call("analyze_repeated", <<>>, r)

NextRepeated ==
    \/ AddSession
    \/ AnalyzeRepeated
    \/ Return

SpecRepeated == InitRepeated /\ [][NextRepeated]_vars

\* the sessions the loop does not skip
SessionsWithMeals(ss) == SelectSeq(ss, LAMBDA x : x.meals # <<>>)

\* the values of a list of optional numbers that are not None, in order
PresentValues(vals) ==
    LET p == SelectSeq(vals, LAMBDA x : ~IsNone(x))
    IN  [i \in DOMAIN p |-> p[i].v]

\* a metric's entry aggregates exactly vals' present values and reports
\* None for mean and std when there is none
AggregatesPresent(stat, vals) ==
    /\ stat.values = PresentValues(vals)
    /\ stat.values # <<>> => stat.mean = Num(MeanRats(stat.values))
    /\ stat.values = <<>> => IsNone(stat.mean) /\ IsNone(stat.std)

\* C15: analyze_repeated aggregates each metric over exactly the sessions
\* whose value for it is not None, and reports None (never 0) as the mean and
\* as the std of a metric no session produced a value for.
C15_AbsentValuesSkipped ==
    (op = "analyze_repeated" /\ sessions # <<>>) =>
        LET held == SessionsWithMeals(sessions)
        IN  /\ AggregatesPresent(result.response_magnitude,
                   [i \in DOMAIN held |->
                       glucose_excursion_amplitude(cgm_data, held[i].meals[1])])
            /\ AggregatesPresent(result.peak_glucose,
                   [i \in DOMAIN held |-> calculate_peak(cgm_data, held[i].meals[1])])
            /\ AggregatesPresent(result.baseline_glucose,
                   [i \in DOMAIN held |->
                       calculate_baseline(cgm_data, held[i].meals[1], DefaultMinutes)])
            /\ \E iaucs \in [DOMAIN held -> {None} \cup
                                { Num(result.iauc_2h.values[k]) :
                                    k \in DOMAIN result.iauc_2h.values }] :
                   /\ \A i \in DOMAIN held :
                          iaucs[i] \in calculate_incremental_auc(cgm_data, held[i].meals[1],
                                                                 DefaultHours)
                   /\ AggregatesPresent(result.iauc_2h, iaucs)

----------------------------------------------------------------------------
(* cgm.py and cgm_adapters.py: the ingestion loaders                        *)

\* a glucose cell of the file that holds the number v, and one that does not
\* hold a number
Cell(v) == [numeric |-> TRUE, v |-> v]
BadCell == [numeric |-> FALSE]

\* pd.to_numeric(column, errors='coerce') on one cell
to_numeric(c) == IF c.numeric THEN Num(IntRat(c.v)) ELSE NaN

\* the frame after the timestamp and glucose columns have been converted
Converted(raw) ==
    [i \in DOMAIN raw |-> [timestamp |-> raw[i].timestamp,
                           glucose |-> to_numeric(raw[i].glucose)]]

\* df[['timestamp', 'glucose']].dropna()
dropna(df) == SelectSeq(df, LAMBDA r : r.glucose # NaN)

\* drop_duplicates(subset=['timestamp']): the first row of each timestamp stays
drop_duplicates(df) ==
    SelectSeq([i \in DOMAIN df |->
                  [row |-> df[i],
                   first |-> \A j \in 1..(i - 1) : df[j].timestamp # df[i].timestamp]],
              LAMBDA e : e.first)

\* cgm.load_cgm_data(filepath): the set of possible outcomes
cgm_load_cgm_data(format, raw) ==
    IF format \notin {"csv", "json"} THEN {Raise("ValueError")}
    ELSE { Frame(df) : df \in SortValues(Converted(raw)) }

\* the adapters that send a .json file to _parse_json, which no class defines
JsonAdapters == {"dexcom", "dexcom_g6", "dexcom_g7", "libre", "freestyle"}
Adapters == JsonAdapters \cup {"medtronic", "manual"}

\* adapter.parse(filepath)
parse(device, format, raw) ==
    IF format = "csv" THEN Frame(dropna(Converted(raw)))
    ELSE IF format = "json" /\ device \in JsonAdapters THEN Raise("AttributeError")
    ELSE Raise("ValueError")

\* cgm_adapters.load_cgm_data(filepath, device): the set of possible outcomes
adapters_load_cgm_data(device, format, raw) ==
    IF device \notin Adapters THEN {Raise("ValueError")}
    ELSE LET parsed == parse(device, format, raw)
         IN  IF parsed.tag = "raise" THEN {parsed}
             ELSE { Frame([i \in DOMAIN drop_duplicates(df) |->
                               drop_duplicates(df)[i].row]) :
                        df \in SortValues(parsed.rows) }

MaxLenRaw == 3
RawTimes == {0, 5, 10}
RawCells == {Cell(100), Cell(200), BadCell}
Formats == {"csv", "json", "txt"}
Devices == {"dexcom", "libre", "medtronic", "manual", "other"}

\* series holds the rows of the file; no frame has been loaded
InitLoad ==
    /\ series \in BoundedSeq({ [timestamp |-> t, glucose |-> c] :
                                   t \in RawTimes, c \in RawCells }, MaxLenRaw)
    /\ cgm_data = <<>>
    /\ anchor = 0
    /\ op = "init"
    /\ args = <<>>
    /\ result = None
    /\ now = 0
    /\ analyzer \in {"cgm", "cgm_adapters"}
    /\ sessions = <<>>

LoadCgmData ==
    Idle /\ analyzer = "cgm" /\ \E format \in Formats :
        \E r \in cgm_load_cgm_data(format, series) :
            Call("load_cgm_data", [format |-> format], r)

LoadAdaptedCgmData ==
    Idle /\ analyzer = "cgm_adapters" /\ \E format \in Formats, device \in Devices :
        \E r \in adapters_load_cgm_data(device, format, series) :
            Call("load_cgm_data", [format |-> format, device |-> device], r)

NextLoad ==
    \/ LoadCgmData
    \/ LoadAdaptedCgmData
    \/ Return

SpecLoad == InitLoad /\ [][NextLoad]_vars

\* C16: every series a loader returns is sorted ascending by timestamp, has
\* at most one reading per timestamp and has no reading whose glucose is NaN.
C16_LoadedSeriesIsClean ==
    (op = "load_cgm_data" /\ result.tag = "frame") =>
        /\ IsSortedByTimestamp(result.rows)
        /\ \A i, j \in DOMAIN result.rows :
               result.rows[i].timestamp = result.rows[j].timestamp => i = j
        /\ \A i \in DOMAIN result.rows : result.rows[i].glucose # NaN

----------------------------------------------------------------------------
(* Episodes as runs of the predicate-true readings                          *)

\* the index at which the run that ends at row i of the sorted frame df
\* begins, a run being broken by a difference of more than gap minutes
RECURSIVE RunStartIndex(_, _, _)
RunStartIndex(df, i, gap) ==
    IF i > 1 /\ df[i].timestamp - df[i - 1].timestamp <= gap
    THEN RunStartIndex(df, i - 1, gap) ELSE i

HighGapMinutes == HighGapSeconds \div SecondsPerMinute
LowGapMinutes == LowGapSeconds \div SecondsPerMinute

\* the number of hourly buckets above the stress level at the end of hourly
RECURSIVE TrailingStressHours(_, _)
TrailingStressHours(hourly, i) ==
    IF i >= 1 /\ RatLt(IntRat(StressGlucose), hourly[i].glucose)
    THEN 1 + TrailingStressHours(hourly, i - 1) ELSE 0

\* C17: a qualifying run that is still open at the last reading (the last
\* hourly bucket for the stress detector) is closed there and appears in the
\* returned list.
C17_TrailingEpisodeRecorded ==
    /\ op = "_find_high_episodes" =>
           LET high == SelectSeq(cgm_data, LAMBDA r : r.glucose > HighGlucose)
               n == Len(high)
               k == RunStartIndex(high, n, HighGapMinutes)
           IN  (n > 0 /\ high[n].timestamp - high[k].timestamp
                             >= MinHighHours * MinutesPerHour) =>
                   \E j \in DOMAIN result.items :
                       /\ result.items[j].start = IsoFormat(high[k].timestamp)
                       /\ result.items[j].end = IsoFormat(high[n].timestamp)
    /\ op = "_find_low_episodes" =>
           LET low == SelectSeq(cgm_data, LAMBDA r : r.glucose < LowGlucose)
               n == Len(low)
               k == RunStartIndex(low, n, LowGapMinutes)
           IN  (n > 0 /\ low[n].timestamp # low[k].timestamp) =>
                   \E j \in DOMAIN result.items :
                       result.items[j].time = IsoFormat(low[k].timestamp)
    /\ op = "detect_stress_periods" =>
           LET hourly == HourlyMeans(cgm_data)
               c == TrailingStressHours(hourly, Len(hourly))
           IN  c >= MinStressHours =>
                   \E j \in DOMAIN result.stress_periods :
                       result.stress_periods[j].start
                           = IsoFormat(hourly[Len(hourly) - c + 1].hour)

\* rows a..b of the sorted predicate-true frame df are a maximal run: no
\* difference inside exceeds gap minutes, the differences at both ends do
IsMaximalRun(df, a, b, gap) ==
    /\ a <= b
    /\ \A i \in a..(b - 1) : df[i + 1].timestamp - df[i].timestamp <= gap
    /\ a = 1 \/ df[a].timestamp - df[a - 1].timestamp > gap
    /\ b = Len(df) \/ df[b + 1].timestamp - df[b].timestamp > gap

C19_HighEpisodeIffTwoHours ==
    op = "_find_high_episodes" =>
        LET high == SelectSeq(cgm_data, LAMBDA r : r.glucose > HighGlucose)
            eps == result.items
        IN  /\ \A a, b \in DOMAIN high :
                   (IsMaximalRun(high, a, b, HighGapMinutes) /\ b < Len(high)) =>
                       ((high[b].timestamp - high[a].timestamp
                             >= MinHighHours * MinutesPerHour)
                        <=> \E j \in DOMAIN eps :
                                /\ eps[j].start = IsoFormat(high[a].timestamp)
                                /\ eps[j].end = IsoFormat(high[b].timestamp))
            /\ \A j \in DOMAIN eps :
                   /\ IsoMinutes(eps[j].end) - IsoMinutes(eps[j].start)
                          >= MinHighHours * MinutesPerHour
                   /\ \E a, b \in DOMAIN high :
                          /\ IsMaximalRun(high, a, b, HighGapMinutes)
                          /\ eps[j].start = IsoFormat(high[a].timestamp)
                          /\ eps[j].end = IsoFormat(high[b].timestamp)
                          /\ eps[j].max_glucose = MaxGlucose(SubSeq(high, a, b))

\* an episode of exactly 2 hours is reported, with readings of different
\* glucose in its run
C19_Witness ==
    /\ op = "_find_high_episodes"
    /\ \E j \in DOMAIN result.items :
           /\ IsoMinutes(result.items[j].end) - IsoMinutes(result.items[j].start)
                  = MinHighHours * MinutesPerHour
           /\ result.items[j].max_glucose > HighGlucose + 20

\* the mean of |g[i] - g[i-1]| over the consecutive pairs of the frame in
\* time order whose |difference| is at least sd_threshold standard deviations
\* of the frame, None when no pair qualifies
MeanQualifyingDiff(sorted, sd_threshold) ==
    LET diffs == AbsDiffs(sorted)
        q == SelectSeq(diffs, LAMBDA d : GeStd(d, sorted, sd_threshold))
    IN  IF Len(sorted) < 2 \/ q = <<>> THEN None ELSE Num(Rat(SumSeq(q), Len(q)))

\* C20: the MAGE extract_features reports is the mean of the consecutive
\* |differences| that are at least one standard deviation, None (not 0) when
\* no pair qualifies, and it is the value calculate_mage returns for the same
\* readings (here all inside the 2-hour window of a meal at the first one).
C20_MageAgrees ==
    (op = "extract_features" /\ result.tag = "dict") =>
        \E sorted \in SortValues(cgm_data) :
            /\ result.biomarkers.mage = MeanQualifyingDiff(sorted, 1)
            /\ result.biomarkers.mage
                   = calculate_mage(sorted, sorted[1].timestamp, DefaultHours, 1)

----------------------------------------------------------------------------
(* Post-meal kinetics                                                       *)

\* positions of the post-meal readings after the meal time whose glucose is
\* above the mean of the pre-meal readings
Rising ==
    { i \in PostMeal : /\ cgm_data[i].timestamp > anchor
                       /\ cgm_data[i].glucose * Cardinality(PreMeal) > GlucoseAt(PreMeal) }

\* the rising readings at the earliest rising timestamp
FirstRising == { i \in Rising : \A j \in Rising : cgm_data[i].timestamp <= cgm_data[j].timestamp }

\* (g - b) / elapsed minutes at position i, b being the pre-meal mean
RiseRateAt(i) ==
    Num(Rat(cgm_data[i].glucose * Cardinality(PreMeal) - GlucoseAt(PreMeal),
            Cardinality(PreMeal) * (cgm_data[i].timestamp - anchor)))

\* C21 as stated: with a baseline, rate_of_rise is (g - b) / elapsed minutes at
\* the first reading after the meal time with g > b, for any post-meal window
\* that holds such a reading, and None when no such reading exists.
C21_RiseRateAtFirstRising ==
    (op = "rate_of_rise" /\ PreMeal # {}) =>
        /\ Rising # {} => \E i \in FirstRising : result = RiseRateAt(i)
        /\ Rising = {} => result = None

\* C21 amended: the same, provided the post-meal window holds at least two
\* readings; with fewer than two readings the result is None.
C21_RiseRateWithTwoReadings ==
    (op = "rate_of_rise" /\ PreMeal # {}) =>
        /\ (Cardinality(PostMeal) >= 2 /\ Rising # {})
               => \E i \in FirstRising : result = RiseRateAt(i)
        /\ Rising = {} => result = None
        /\ Cardinality(PostMeal) < 2 => result = None

\* baseline 90; a reading at the baseline 10 minutes after the meal, then one
\* at 135 an hour after the meal: the rate is 45/60
C21_Witness ==
    /\ op = "rate_of_rise"
    /\ PreMeal # {}
    /\ GlucoseAt(PreMeal) = 90 * Cardinality(PreMeal)
    /\ \E i \in PostMeal : cgm_data[i].timestamp = 70 /\ cgm_data[i].glucose = 90
    /\ \E i \in FirstRising : cgm_data[i].timestamp = 120 /\ cgm_data[i].glucose = 135
    /\ result = Num(Rat(3, 4))

\* the composite trapezoid sum of the values vals at the timestamps of the
\* rows ws: the sum of (v[i] + v[i-1]) * (t[i] - t[i-1]) / 2, t in minutes
RECURSIVE TrapezoidSum(_, _)
TrapezoidSum(vals, ws) ==
    IF Len(ws) < 2 THEN IntRat(0)
    ELSE LET n == Len(ws)
         IN  RatAdd(TrapezoidSum(SubSeq(vals, 1, n - 1), SubSeq(ws, 1, n - 1)),
                    RatDiv(RatMul(RatAdd(vals[n], vals[n - 1]),
                                  IntRat(ws[n].timestamp - ws[n - 1].timestamp)),
                           IntRat(2)))

\* the rows of the post-meal window, in the order of the series
PostMealRows == SelectSeq(cgm_data, LAMBDA r : /\ anchor <= r.timestamp
                                               /\ r.timestamp <= anchor + 120)

\* max(0, g - b), b being the pre-meal mean
ClampedAbove(g) ==
    IF g * Cardinality(PreMeal) > GlucoseAt(PreMeal)
    THEN Rat(g * Cardinality(PreMeal) - GlucoseAt(PreMeal), Cardinality(PreMeal))
    ELSE IntRat(0)

\* C22: calculate_total_auc is the trapezoid sum over the window's readings
\* in ascending time order, whichever ascending order of the rows is taken,
\* and None for a window of fewer than 2 readings; calculate_incremental_auc
\* is the same sum over max(0, g - baseline).
C22_AucIsTrapezoidSum ==
    /\ op = "calculate_total_auc" =>
           IF Cardinality(PostMeal) < 2 THEN result = None
           ELSE \A ws \in SortValues(PostMealRows) :
                    result = Num(TrapezoidSum([i \in DOMAIN ws |-> IntRat(ws[i].glucose)], ws))
    /\ (op = "calculate_incremental_auc" /\ PreMeal # {}) =>
           IF Cardinality(PostMeal) < 2 THEN result = None
           ELSE \A ws \in SortValues(PostMealRows) :
                    result = Num(TrapezoidSum([i \in DOMAIN ws |-> ClampedAbove(ws[i].glucose)],
                                              ws))

----------------------------------------------------------------------------
\* The phase AUCs beside the incremental AUC, the excursion count and the rate
\* of decline: one reading before the meal and readings after it that can
\* share a timestamp
MaxLenPhase == 5
PhaseRows == Rows({55}, {90}) \cup Rows({60, 70, 75}, {90, 180})

InitPhase ==
    /\ cgm_data \in SortedFrames(PhaseRows, MaxLenPhase)
    /\ anchor \in MealTimes
    /\ op = "init"
    /\ args = <<>>
    /\ result = None
    /\ now = 0
    /\ series = cgm_data
    /\ analyzer = "PostMealAnalysis"
    /\ sessions = <<>>

NextPhase ==
    \/ CalculateIncrementalAuc
    \/ EarlyPhaseAuc
    \/ LatePhaseAuc
    \/ CountExcursions
    \/ RateOfDecline
    \/ Return

SpecPhase == InitPhase /\ [][NextPhase]_vars

\* the readings early_phase_auc(minutes) integrates over
EarlyRows(minutes) == SelectSeq(PostMealRows, LAMBDA r : r.timestamp <= anchor + minutes)

C23_WholeWindowPhases ==
    LET whole == calculate_incremental_auc(cgm_data, anchor, DefaultHours)
    IN  /\ (op = "early_phase_auc" /\ args.minutes = DefaultHours * MinutesPerHour)
               => result \in whole
        /\ (op = "late_phase_auc" /\ args.start_min = 0 /\ args.end_hours = DefaultHours)
               => result \in whole
        /\ (op = "calculate_incremental_auc" /\ args.hours = DefaultHours)
               => /\ result \in early_phase_auc(cgm_data, anchor, DefaultHours * MinutesPerHour)
                  /\ result \in late_phase_auc(cgm_data, anchor, 0, DefaultHours)

\* the inequality of C23 over frames whose timestamps are all different
C23_EarlyBelowWithoutTies ==
    (/\ op = "early_phase_auc"
     /\ result # None
     /\ \A i, j \in DOMAIN cgm_data : i # j => cgm_data[i].timestamp # cgm_data[j].timestamp)
        => \A v \in calculate_incremental_auc(cgm_data, anchor, DefaultHours) :
               v # None => RatLe(result.v, v.v)

----------------------------------------------------------------------------
\* Excursion count

\* the change from reading i - 1 to reading i of the post-meal window
WindowDelta(i) == PostMealRows[i].glucose - PostMealRows[i - 1].glucose

\* the moves: changes larger than the threshold
MovesAbove(threshold) == { i \in 2..Len(PostMealRows) : Abs(WindowDelta(i)) > threshold }

\* the moves when a change equal to the threshold is a move as well
MovesFrom(threshold) == { i \in 2..Len(PostMealRows) : Abs(WindowDelta(i)) >= threshold }

\* the moves that go the other way than the move before them
Reversals(moves) ==
    { i \in moves : \E j \in moves :
        /\ j < i
        /\ \A k \in moves : ~(j < k /\ k < i)
        /\ (WindowDelta(j) > 0) # (WindowDelta(i) > 0) }

\* C25: count_excursions(threshold) is the number of direction reversals
\* among the changes between consecutive readings whose magnitude exceeds the
\* threshold; a change that does not exceed it (one equal to it included) is
\* no move and leaves the remembered direction alone.
C25_ReversalsAboveThreshold ==
    (op = "count_excursions" /\ PostMeal # {})
        => result = Num(IntRat(Cardinality(Reversals(MovesAbove(args.threshold)))))

\* the count of the code: a change equal to the threshold is a move
C25_ReversalsFromThreshold ==
    /\ (op = "count_excursions" /\ PostMeal # {})
           => result = Num(IntRat(Cardinality(Reversals(MovesFrom(args.threshold)))))
    /\ (op = "count_excursions" /\ PostMeal = {}) => result = None

----------------------------------------------------------------------------
\* Rate of decline

\* the readings of the window strictly after the peak's timestamp
AfterPeak == { i \in PostMeal : cgm_data[i].timestamp > cgm_data[PeakAt].timestamp }

RECURSIVE SumOver(_, _)
SumOver(S, f) ==
    IF S = {} THEN 0 ELSE LET i == CHOOSE j \in S : TRUE IN f[i] + SumOver(S \ {i}, f)

\* minutes since the peak, and the sums of the least-squares slope
SincePeak == [i \in AfterPeak |-> cgm_data[i].timestamp - cgm_data[PeakAt].timestamp]
SlopeNumerator ==
    Cardinality(AfterPeak)
        * SumOver(AfterPeak, [i \in AfterPeak |-> SincePeak[i] * cgm_data[i].glucose])
    - SumOver(AfterPeak, SincePeak)
        * SumOver(AfterPeak, [i \in AfterPeak |-> cgm_data[i].glucose])
SlopeDenominator ==
    Cardinality(AfterPeak) * SumOver(AfterPeak, [i \in AfterPeak |-> SincePeak[i] * SincePeak[i]])
    - SumOver(AfterPeak, SincePeak) * SumOver(AfterPeak, SincePeak)

\* C24: rate_of_decline returns None when fewer than 2 readings of the window
\* lie strictly after the peak's timestamp, and the regression slope of the
\* readings after the peak when at least 2 do (the peak being the earliest
\* reading with the window's maximum).
C24_DeclineIsSlopeAfterPeak ==
    (op = "rate_of_decline" /\ PostMeal # {}) =>
        IF Cardinality(AfterPeak) < 2 THEN result = None
        ELSE /\ SlopeDenominator # 0
             /\ result = Num(Rat(SlopeNumerator, SlopeDenominator))

\* what holds of the code: the slope needs a window of at least 4 readings
\* and two different timestamps after the peak
C24_DeclineWithFourReadings ==
    (op = "rate_of_decline" /\ PostMeal # {}) =>
        IF Cardinality(AfterPeak) < 2 \/ Cardinality(PostMeal) < MinWindowForDecline
        THEN result = None
        ELSE IF SlopeDenominator = 0 THEN result \in {Raise("ValueError"), NaN}
        ELSE result = Num(Rat(SlopeNumerator, SlopeDenominator))

----------------------------------------------------------------------------
\* Somogyi effect: CircadianAnalysis over a frame its constructor has sorted

MaxLenSomogyi == 3
SomogyiTimes == {0, 30, 240, 255, 360}
SomogyiGlucose == {65, 70, 180, 200}

InitSomogyi ==
    /\ cgm_data \in SortedFrames(Rows(SomogyiTimes, SomogyiGlucose), MaxLenSomogyi)
    /\ anchor = 0
    /\ op = "init"
    /\ args = <<>>
    /\ result = None
    /\ now = 0
    /\ series = cgm_data
    /\ analyzer = "CircadianAnalysis"
    /\ sessions = <<>>

SomogyiEffectAnalysis ==
    Idle /\ analyzer = "CircadianAnalysis"
         /\ Call("somogyi_effect_analysis", <<>>, somogyi_effect_analysis(cgm_data))

NextSomogyi ==
    \/ SomogyiEffectAnalysis
    \/ Return

SpecSomogyi == InitSomogyi /\ [][NextSomogyi]_vars

\* a reading below 70 in the hours 0 to 5
NightLow == { i \in Indices : HourOf(i) < 6 /\ cgm_data[i].glucose < 70 }

\* the readings strictly after reading i and less than 4 hours after it
Horizon(i) == { j \in Indices : /\ cgm_data[j].timestamp > cgm_data[i].timestamp
                                /\ cgm_data[j].timestamp < cgm_data[i].timestamp + 240 }

\* the night lows followed by a reading above 180 within their horizon
Rebounding == { i \in NightLow : \E j \in Horizon(i) : cgm_data[j].glucose > 180 }

EpisodeStarts == { i \in NightLow : i = 1 \/ (i - 1) \notin NightLow }

\* the highest glucose of the horizon of reading i
HorizonMax(i) ==
    CHOOSE g \in { cgm_data[j].glucose : j \in Horizon(i) } :
        \A j \in Horizon(i) : cgm_data[j].glucose <= g

ReportsRebound(i) ==
    /\ result.low_time = IsoFormat(cgm_data[i].timestamp)
    /\ result.rebound_glucose = IntRat(HorizonMax(i))
    /\ \E j \in Horizon(i) :
           /\ cgm_data[j].glucose = HorizonMax(i)
           /\ result.rebound_time = IsoFormat(cgm_data[j].timestamp)

\* C27: a flagged rebound reports as low_time the start (first reading) of the
\* nocturnal hypoglycemia episode before the rebound, as rebound_glucose the
\* highest glucose of that episode's horizon and as rebound_time the time of
\* that highest reading.
C27_ReportsEpisodeStart ==
    (op = "somogyi_effect_analysis" /\ result.somogyi_effect)
        => \E i \in EpisodeStarts : Horizon(i) # {} /\ ReportsRebound(i)

\* what the code reports: the earliest night low with a rebound in its own
\* horizon, wherever it lies in its episode
C27_ReportsFirstReboundingLow ==
    (op = "somogyi_effect_analysis" /\ result.somogyi_effect)
        => \E i \in Rebounding :
               /\ \A k \in Rebounding : cgm_data[i].timestamp <= cgm_data[k].timestamp
               /\ ReportsRebound(i)

----------------------------------------------------------------------------
\* Stress periods

\* the mean of the hourly means of buckets a..b
MeanOfBuckets(hourly, a, b) ==
    RatDiv(RatSum(SubSeq(hourly, a, b)), IntRat(b - a + 1))

\* buckets a..b are a run of at least 2 buckets above the stress level that
\* the period p reports
CoversRun(p, hourly, a, b) ==
    /\ b - a + 1 >= 2
    /\ \A k \in a..b : RatLt(IntRat(160), hourly[k].glucose)
    /\ p.start = IsoFormat(hourly[a].hour)
    /\ p.duration_hours = b - a + 1

\* C28: every stress period of detect_stress_periods covers a run of at least
\* 2 consecutive hourly buckets with a mean above 160 each, its duration_hours
\* is the number of buckets of the run, and its avg_glucose is the mean of
\* the hourly means of exactly those buckets, hence above 160.
C28_StressPeriodAveragesItsRun ==
    op = "detect_stress_periods" =>
        LET hourly == HourlyMeans(cgm_data)
        IN  \A j \in DOMAIN result.stress_periods :
                LET p == result.stress_periods[j]
                IN  \E a, b \in DOMAIN hourly :
                        /\ CoversRun(p, hourly, a, b)
                        /\ p.avg_glucose = Round1(MeanOfBuckets(hourly, a, b))
                        /\ RatLt(IntRat(160), p.avg_glucose)

\* what holds of the code: the run is as claimed, and the average takes in
\* the bucket that ended the run
C28_StressPeriodAveragesPastItsRun ==
    op = "detect_stress_periods" =>
        LET hourly == HourlyMeans(cgm_data)
        IN  \A j \in DOMAIN result.stress_periods :
                LET p == result.stress_periods[j]
                IN  \E a, b \in DOMAIN hourly :
                        /\ CoversRun(p, hourly, a, b)
                        /\ b < Len(hourly)
                        /\ p.avg_glucose = Round1(MeanOfBuckets(hourly, a, b + 1))

----------------------------------------------------------------------------
\* Range shares: analyze_glucose on a frame as it is passed, BiomarkerAnalysis
\* and ClinicalTrial on a frame their constructors have sorted

MaxLenShares == 3
SharesTimes == {0, 5}
SharesGlucose == {60, 70, 160, 180, 200}

InitShares ==
    /\ cgm_data \in SortedFrames(Rows(SharesTimes, SharesGlucose), MaxLenShares)
    /\ anchor = 0
    /\ op = "init"
    /\ args = <<>>
    /\ result = None
    /\ now = 0
    /\ series = cgm_data
    /\ analyzer \in {"analysis", "BiomarkerAnalysis", "ClinicalTrial"}
    /\ sessions = <<>>

AnalyzeGlucose ==
    Idle /\ analyzer = "analysis"
         /\ Call("analyze_glucose", <<>>, analyze_glucose(cgm_data))

CalculateEndpoints ==
    Idle /\ analyzer = "ClinicalTrial"
         /\ Call("calculate_endpoints", <<>>, calculate_endpoints(cgm_data))

NextShares ==
    \/ AnalyzeGlucose
    \/ ExtractFeatures
    \/ CalculateEndpoints
    \/ Return

SpecShares == InitShares /\ [][NextShares]_vars

\* the three classes of readings
InRangeReadings == { i \in Indices : cgm_data[i].glucose >= 70 /\ cgm_data[i].glucose <= 180 }
BelowReadings == { i \in Indices : cgm_data[i].glucose < 70 }
AboveReadings == { i \in Indices : cgm_data[i].glucose > 180 }

\* the share of a class in percent
ClassShare(S) == Rat(100 * Cardinality(S), Len(cgm_data))

\* C29: where time in range, time below and time above are reported together
\* the three are the shares of three classes that partition the readings:
\* in analyze_glucose they sum to 100, in extract_features and
\* calculate_endpoints they are the rounded shares of the readings within
\* 70..180, below 70 and above 180.
C29_SharesPartitionReadings ==
    /\ (op = "analyze_glucose" /\ cgm_data # <<>>) =>
           RatAdd(RatAdd(result.tir.v, result.time_below_70.v), result.time_above_180.v)
               = IntRat(100)
    /\ (op = "extract_features" /\ cgm_data # <<>>) =>
           /\ result.biomarkers.tir = Num(Round1(ClassShare(InRangeReadings)))
           /\ result.biomarkers.tbr = Num(Round1(ClassShare(BelowReadings)))
           /\ result.biomarkers.tar = Num(Round1(ClassShare(AboveReadings)))
    /\ (op = "calculate_endpoints" /\ cgm_data # <<>>) =>
           /\ result.endpoints.primary_tir = Num(Round1(ClassShare(InRangeReadings)))
           /\ result.endpoints.tbr = Num(Round1(ClassShare(BelowReadings)))
           /\ result.endpoints.tar = Num(Round1(ClassShare(AboveReadings)))

\* the part of C29 about extract_features and calculate_endpoints
C29_RoundedSharesPartition ==
    /\ (op = "extract_features" /\ cgm_data # <<>>) =>
           /\ result.biomarkers.tir = Num(Round1(ClassShare(InRangeReadings)))
           /\ result.biomarkers.tbr = Num(Round1(ClassShare(BelowReadings)))
           /\ result.biomarkers.tar = Num(Round1(ClassShare(AboveReadings)))
    /\ (op = "calculate_endpoints" /\ cgm_data # <<>>) =>
           /\ result.endpoints.primary_tir = Num(Round1(ClassShare(InRangeReadings)))
           /\ result.endpoints.tbr = Num(Round1(ClassShare(BelowReadings)))
           /\ result.endpoints.tar = Num(Round1(ClassShare(AboveReadings)))
    /\ Cardinality(InRangeReadings) + Cardinality(BelowReadings)
           + Cardinality(AboveReadings) = Len(cgm_data)

\* analyze_glucose: the readings above 140 and up to 180 are in no class
C29_AnalyzeGlucoseLeavesOut ==
    (op = "analyze_glucose" /\ cgm_data # <<>>) =>
        RatAdd(RatAdd(result.tir.v, result.time_below_70.v), result.time_above_180.v)
            = RatSub(IntRat(100),
                     ClassShare({ i \in Indices : /\ cgm_data[i].glucose > 140
                                                  /\ cgm_data[i].glucose <= 180 }))

----------------------------------------------------------------------------
(* medication.py: analyze_medication(medication_name, dosage, taken_time,  *)
(* cgm_data).  Names, classes, effects, risks and texts are stand-ins for  *)
(* the strings of the source.                                              *)

\* two entries of ORAL_MEDICATIONS
ORAL_MEDICATIONS ==
    [metformin |->
         [tag |-> "dict", type |-> "oral", class |-> "biguanide", onset_hours |-> 1, peak_hours |-> 2,
          duration_hours |-> 6, effect |-> "less hepatic output", hypo_risk |-> "low"],
     glibenclamide |->
         [tag |-> "dict", type |-> "oral", class |-> "sulfonylurea", onset_hours |-> 1, peak_hours |-> 3,
          duration_hours |-> 12, effect |-> "insulin secretion", hypo_risk |-> "high"]]

\* MedicationEvent(medication_name, dosage, taken_time=taken_time)
MedicationEvent(medication_name, dosage, taken_time) ==
    [medication_name |-> medication_name,
     dosage |-> dosage,
     unit |-> None,
     taken_time |-> taken_time,
     medication_type |-> "oral",
     info |-> IF medication_name \in DOMAIN ORAL_MEDICATIONS
              THEN ORAL_MEDICATIONS[medication_name] ELSE None]

DefaultOnsetHours == 1
DefaultPeakHours == 2

onset_time(med) ==
    med.taken_time + MinutesPerHour
        * (IF med.info # None THEN med.info.onset_hours ELSE DefaultOnsetHours)
peak_time(med) ==
    med.taken_time + MinutesPerHour
        * (IF med.info # None THEN med.info.peak_hours ELSE DefaultPeakHours)

to_dict(med) ==
    [medication_name |-> med.medication_name,
     dosage |-> med.dosage,
     unit |-> med.unit,
     type |-> med.medication_type,
     taken_time |-> IsoFormat(med.taken_time),
     onset_time |-> IsoFormat(onset_time(med)),
     peak_time |-> IsoFormat(peak_time(med)),
     end_time |-> IsoFormat(end_time(med.taken_time, med.info)),
     class |-> IF med.info # None THEN [text |-> med.info.class] ELSE None,
     effect |-> IF med.info # None THEN [text |-> med.info.effect] ELSE None,
     hypo_risk |-> IF med.info # None THEN [text |-> med.info.hypo_risk] ELSE None]

BaselineMinutes == 30

find_baseline_window(med, df) ==
    SelectSeq(df, LAMBDA r : /\ r.timestamp >= med.taken_time - BaselineMinutes
                             /\ r.timestamp < med.taken_time)

medication_calculate_baseline(med, df) ==
    LET baseline == find_baseline_window(med, df)
    IN  IF baseline = <<>> THEN None ELSE Num(MeanGlucose(baseline))

\* a key of the result that is there when present holds
Key(name, present, value) == IF present THEN name :> value ELSE <<>>

PhaseStats(w) ==
    [min |-> MinGlucose(w), max |-> MaxGlucose(w), avg |-> MeanGlucose(w)]

calculate_response(med, df) ==
    LET baseline == medication_calculate_baseline(med, df)
        window == find_medication_window(df, med.taken_time, med.info)
        results == [medication |-> to_dict(med), baseline |-> baseline]
        onset_window == SelectSeq(window, LAMBDA r : r.timestamp < onset_time(med))
        peak_window == SelectSeq(window, LAMBDA r : /\ r.timestamp >= onset_time(med)
                                                    /\ r.timestamp < peak_time(med))
        duration_window == SelectSeq(window, LAMBDA r : r.timestamp >= peak_time(med))
    IN  IF baseline = None THEN [error |-> "no baseline"]
        ELSE IF window = <<>> THEN results @@ [error |-> "no data in window"]
        ELSE results
             @@ Key("onset", onset_window # <<>>, PhaseStats(onset_window))
             @@ Key("peak", peak_window # <<>>,
                    PhaseStats(peak_window)
                    @@ [change_from_baseline |->
                            RatSub(MeanGlucose(peak_window), baseline.v)])
             @@ Key("duration", duration_window # <<>>, PhaseStats(duration_window))
             @@ [overall |->
                    PhaseStats(window)
                    @@ [change_from_baseline |-> RatSub(MeanGlucose(window), baseline.v),
                        max_drop |-> RatSub(baseline.v, IntRat(MinGlucose(window)))]]

Clamp(score) == IF score > 100 THEN 100 ELSE IF score < 0 THEN 0 ELSE score

assess_efficacy(response) ==
    IF "error" \in DOMAIN response THEN [efficacy |-> "unknown", score |-> 0]
    ELSE LET change == response.overall.change_from_baseline
             max_drop == response.overall.max_drop
             by_change == IF RatLt(change, IntRat(-30)) THEN 30
                          ELSE IF RatLt(change, IntRat(-15)) THEN 20
                          ELSE IF RatLt(change, IntRat(0)) THEN 10
                          ELSE IF RatLt(IntRat(20), change) THEN -20
                          ELSE 0
             by_drop == IF RatLt(IntRat(50), max_drop) THEN 20
                        ELSE IF RatLt(IntRat(30), max_drop) THEN 10
                        ELSE 0
             score == Clamp(50 + by_change + by_drop)
         IN  [efficacy |-> IF score >= 80 THEN "marked"
                           ELSE IF score >= 60 THEN "good"
                           ELSE IF score >= 40 THEN "fair"
                           ELSE "poor",
              score |-> score,
              change |-> change,
              max_drop |-> max_drop]

\* generate_recommendations(): a list, or the exception of med.info.get on
\* an info that is None
generate_recommendations(med, df) ==
    LET response == calculate_response(med, df)
        efficacy == assess_efficacy(response)
        hypo_risk == IF med.info # None THEN med.info.hypo_risk ELSE "low"
        max_drop == response.overall.max_drop
        on_efficacy == IF efficacy.efficacy = "poor"
                       THEN <<[text |-> "poor effect", name |-> med.medication_name]>>
                       ELSE <<>>
        on_risk == IF hypo_risk = "high" THEN <<[text |-> "high hypo risk"]>>
                   ELSE IF hypo_risk = "medium" THEN <<[text |-> "watch for hypo"]>>
                   ELSE <<>>
        on_drop == IF RatLt(IntRat(50), max_drop) THEN <<[text |-> "large drop"]>>
                   ELSE IF RatLt(max_drop, IntRat(10)) THEN <<[text |-> "little effect"]>>
                   ELSE <<>>
        recommendations == on_efficacy \o on_risk \o on_drop
    IN  IF "error" \in DOMAIN response THEN List(<<[text |-> "insufficient data"]>>)
        ELSE IF med.medication_type = "oral"
        THEN IF med.info = None THEN Raise("AttributeError")
             ELSE List(recommendations
                       \o <<[text |-> "onset and duration",
                             onset_hours |-> med.info.onset_hours,
                             duration_hours |-> med.info.duration_hours]>>)
        ELSE IF recommendations = <<>> THEN List(<<[text |-> "well controlled"]>>)
        ELSE List(recommendations)

get_full_analysis(med, df) ==
    LET response == calculate_response(med, df)
        efficacy == assess_efficacy(response)
        recs == generate_recommendations(med, df)
    IN  IF recs.tag = "raise" THEN recs
        ELSE [tag |-> "dict",
              response |-> response,
              efficacy |-> efficacy,
              recommendations |-> recs]

analyze_medication(medication_name, dosage, taken_time, df) ==
    get_full_analysis(MedicationEvent(medication_name, dosage, taken_time), df)

MaxLenMedication == 3
MedicationTimes == {29, 30, 60, 180, 421}
MedicationGlucose == {90, 150}
MedicationNames == {"metformin", "glibenclamide", "unlisted"}
Dosages == {500}
TakenTimes == {60}

InitMedication ==
    /\ cgm_data \in BoundedSeq(Rows(MedicationTimes, MedicationGlucose), MaxLenMedication)
    /\ anchor \in TakenTimes
    /\ op = "init"
    /\ args = <<>>
    /\ result = None
    /\ now = 0
    /\ series = cgm_data
    /\ analyzer = "medication"
    /\ sessions = <<>>

AnalyzeMedication ==
    Idle /\ analyzer = "medication"
         /\ \E medication_name \in MedicationNames, dosage \in Dosages :
                Call("analyze_medication",
                     [medication_name |-> medication_name, dosage |-> dosage,
                      taken_time |-> anchor],
                     analyze_medication(medication_name, dosage, anchor, cgm_data))

NextMedication ==
    \/ AnalyzeMedication
    \/ Return

SpecMedication == InitMedication /\ [][NextMedication]_vars

\* a reading in the 30 minutes before the dose
HasBaselineReading ==
    \E i \in Indices : cgm_data[i].timestamp >= anchor - 30 /\ cgm_data[i].timestamp < anchor

\* a reading in the effect window of a medication that lasts the given hours
HasWindowReading(hours) ==
    \E i \in Indices : /\ cgm_data[i].timestamp >= anchor
                       /\ cgm_data[i].timestamp <= anchor + 60 * hours

\* the hours the effect of the medication of the call lasts
EffectHours ==
    IF args.medication_name = "metformin" THEN 6
    ELSE IF args.medication_name = "glibenclamide" THEN 12
    ELSE 6

\* C30: analyze_medication returns a record of response, efficacy and
\* recommendations without raising for every medication name, the names
\* that are not in ORAL_MEDICATIONS included, whenever the series has a
\* reading in the 30 minutes before the dose and a reading in the effect window.
C30_ReturnsForEveryName ==
    (op = "analyze_medication" /\ HasBaselineReading /\ HasWindowReading(EffectHours))
        => /\ result.tag = "dict"
           /\ {"response", "efficacy", "recommendations"} \subseteq DOMAIN result

\* what holds of the code: a listed name always gets its record, an unlisted
\* one gets it when readings are missing and an exception when they are there
C30_RaisesForUnlistedName ==
    op = "analyze_medication" =>
        IF args.medication_name \in {"metformin", "glibenclamide"}
           \/ ~(HasBaselineReading /\ HasWindowReading(EffectHours))
        THEN /\ result.tag = "dict"
             /\ {"response", "efficacy", "recommendations"} \subseteq DOMAIN result
        ELSE result = Raise("AttributeError")

====
